---- MODULE Spec2Model ----
(***************************************************************************)
(* Model of the document chunking and metadata-extraction pipeline of      *)
(* rag/chunker.py and rag/document_extractor.py.                           *)
(*                                                                         *)
(* A Python str is modelled as a Text: a run-length encoded sequence of    *)
(* runs [c |-> character, n |-> repetitions].  Only the characters of      *)
(* RunChars are ever merged into runs longer than one, every other         *)
(* character is one run per occurrence, so every str has exactly one Text  *)
(* and Text equality is str equality.  The encoding lets the model keep    *)
(* the program's own thresholds (50, 120, 200, 500, 2000, 3500 characters) *)
(* while the sequences TLC handles stay short.                             *)
(*                                                                         *)
(* Characters without an ASCII spelling are named: "c1" is a C1 control    *)
(* character (U+0080..U+009F, not U+0085), "nbsp" is U+00A0, "nbhy" is     *)
(* U+2011, "shy" is U+00AD, "cdot" is U+0358, "\t" is a tab.               *)
(***************************************************************************)
EXTENDS Integers, Sequences, FiniteSets, TLC

RunChars == {"x", " ", "\n", "*"}

\* Python's str.isspace / regex \s on the characters of the model.
Whitespace == {" ", "\n", "\t", "nbsp"}

Digits == {"0", "1", "2", "3", "4", "5", "6", "7", "8", "9"}

Run(c, n) == IF n <= 0 THEN <<>> ELSE <<[c |-> c, n |-> n]>>

\* The canonical Text of a sequence of runs: adjacent runs of one RunChars
\* character are merged, leftmost pair first.
RECURSIVE Norm(_)
Norm(t) ==
  LET Mergeable(i) == t[i].c = t[i + 1].c /\ t[i].c \in RunChars IN
  IF \A i \in 1..(Len(t) - 1) : ~Mergeable(i) THEN t
  ELSE LET i == CHOOSE i \in 1..(Len(t) - 1) :
                  Mergeable(i) /\ \A j \in 1..(i - 1) : ~Mergeable(j)
       IN Norm(SubSeq(t, 1, i - 1)
               \o <<[c |-> t[i].c, n |-> t[i].n + t[i + 1].n]>>
               \o SubSeq(t, i + 2, Len(t)))

\* The Text of a string literal, given as the tuple of its characters.
Lit(s) == Norm([i \in 1..Len(s) |-> [c |-> s[i], n |-> 1]])

\* a + b
Cat(a, b) == Norm(a \o b)

\* The number of characters of the runs lo..hi of t.
RECURSIVE RunsLen(_, _, _)
RunsLen(t, lo, hi) ==
  IF lo > hi THEN 0
  ELSE IF lo = hi THEN t[lo].n
  ELSE LET mid == (lo + hi) \div 2 IN RunsLen(t, lo, mid) + RunsLen(t, mid + 1, hi)

\* len(t)
TLen(t) == RunsLen(t, 1, Len(t))

\* t[:k]
Take(t, k) ==
  IF k <= 0 THEN <<>>
  ELSE IF k >= TLen(t) THEN t
  ELSE LET i == CHOOSE i \in 1..Len(t) :
                  RunsLen(t, 1, i - 1) < k /\ k <= RunsLen(t, 1, i)
       IN SubSeq(t, 1, i - 1) \o Run(t[i].c, k - RunsLen(t, 1, i - 1))

\* t[k:]
Drop(t, k) ==
  IF k <= 0 THEN t
  ELSE IF k >= TLen(t) THEN <<>>
  ELSE LET i == CHOOSE i \in 1..Len(t) :
                  RunsLen(t, 1, i - 1) <= k /\ k < RunsLen(t, 1, i)
       IN Run(t[i].c, RunsLen(t, 1, i) - k) \o SubSeq(t, i + 1, Len(t))

\* t.lstrip(), t.rstrip(), t.strip()
LStrip(t) ==
  IF \A i \in 1..Len(t) : t[i].c \in Whitespace THEN <<>>
  ELSE LET k == CHOOSE i \in 1..Len(t) :
                  /\ t[i].c \notin Whitespace
                  /\ \A j \in 1..(i - 1) : t[j].c \in Whitespace
       IN SubSeq(t, k, Len(t))

RStrip(t) ==
  IF \A i \in 1..Len(t) : t[i].c \in Whitespace THEN <<>>
  ELSE LET k == CHOOSE i \in 1..Len(t) :
                  /\ t[i].c \notin Whitespace
                  /\ \A j \in (i + 1)..Len(t) : t[j].c \in Whitespace
       IN SubSeq(t, 1, k)

Strip(t) == LStrip(RStrip(t))

\* t.replace(ch, "") for every ch of chars
Remove(t, chars) == Norm(SelectSeq(t, LAMBDA r : r.c \notin chars))

\* t.replace(a, b) for single characters a and b
Replace(t, a, b) ==
  Norm([i \in 1..Len(t) |-> IF t[i].c = a THEN [c |-> b, n |-> t[i].n] ELSE t[i]])

\* needle in t, and t.startswith(needle), for a needle without RunChars runs
\* at its ends; t.find(needle) as the number of characters before the match.
MatchAt(t, needle, i) ==
  /\ i >= 1
  /\ i + Len(needle) - 1 <= Len(t)
  /\ \A j \in 1..Len(needle) :
       /\ t[i + j - 1].c = needle[j].c
       /\ IF j = 1 \/ j = Len(needle)
          THEN t[i + j - 1].n >= needle[j].n
          ELSE t[i + j - 1].n = needle[j].n

Contains(t, needle) == \E i \in 1..Len(t) : MatchAt(t, needle, i)

\* The index of the first run at or after `from` that holds character ch, or 0.
FirstIdx(t, from, ch) ==
  IF \E i \in from..Len(t) : t[i].c = ch
  THEN CHOOSE i \in from..Len(t) :
         t[i].c = ch /\ \A j \in from..(i - 1) : t[j].c # ch
  ELSE 0

\* t.split("\n"): a run of n line breaks ends one line and adds n-1 empty ones.
RECURSIVE Lines(_)
Lines(t) ==
  LET i == FirstIdx(t, 1, "\n") IN
  IF i = 0 THEN <<t>>
  ELSE <<SubSeq(t, 1, i - 1)>>
       \o [k \in 1..(t[i].n - 1) |-> <<>>]
       \o Lines(SubSeq(t, i + 1, Len(t)))

\* t.startswith(needle)
StartsWith(t, needle) == Take(t, TLen(needle)) = needle

\* t without the runs whose indices are in D
DropWhere(t, D) ==
  LET m == [i \in 1..Len(t) |-> [c |-> t[i].c, n |-> t[i].n, d |-> i \in D]]
      k == SelectSeq(m, LAMBDA r : ~r.d)
  IN Norm([i \in 1..Len(k) |-> [c |-> k[i].c, n |-> k[i].n]])

\* t.split(ch) for a character ch
RECURSIVE SplitOn(_, _)
SplitOn(t, ch) ==
  LET i == FirstIdx(t, 1, ch) IN
  IF i = 0 THEN <<t>>
  ELSE <<SubSeq(t, 1, i - 1)>>
       \o [k \in 1..(t[i].n - 1) |-> <<>>]
       \o SplitOn(SubSeq(t, i + 1, Len(t)), ch)

(***************************************************************************)
(* rag/chunker.py: constants and lookup tables                             *)
(***************************************************************************)
CHUNK_SIZE_CHARS == 2000
CHUNK_OVERLAP_CHARS == 400
SEPARATORS == {" ", "\n"}   \* every separator of the list holds one of these
MIN_TEXT_CHARS == 50        \* the floor of chunk_document and extract_document
TAIL_MIN_CHARS == 500       \* the tail-merge threshold
HEADER_TITLE_CHARS == 120
TITLE_FALLBACK_CHARS == 200
JURISDICTION_LINES == 30
MARKER_MAX_STARS == 4

_PATH_TO_COURT ==
  <<[prefix |-> Lit(<<"a","p","o","f","a","s","e","i","s","/","a","a","d">>),
     court_id |-> Lit(<<"a","a","d">>)],
    [prefix |-> Lit(<<"a","p","o","f","a","s","e","i","s","/","e","p","a">>),
     court_id |-> Lit(<<"e","p","a">>)],
    [prefix |-> Lit(<<"a","p","o","f","a","s","e","i","s","/","a","a","p">>),
     court_id |-> Lit(<<"a","a","p">>)],
    [prefix |-> Lit(<<"a","p","o","f","a","s","e","i","s","/","d","i","o","i","k","i","t","i","k","o">>),
     court_id |-> Lit(<<"d","i","o","i","k","i","t","i","k","o">>)],
    [prefix |-> Lit(<<"c","o","u","r","t","O","f","A","p","p","e","a","l">>),
     court_id |-> Lit(<<"c","o","u","r","t","O","f","A","p","p","e","a","l">>)],
    [prefix |-> Lit(<<"a","d","m","i","n","i","s","t","r","a","t","i","v","e","C","o","u","r","t","O","f","A","p","p","e","a","l">>),
     court_id |-> Lit(<<"a","d","m","i","n","i","s","t","r","a","t","i","v","e","C","o","u","r","t","O","f","A","p","p","e","a","l">>)],
    [prefix |-> Lit(<<"s","u","p","r","e","m","e","A","d","m","i","n","i","s","t","r","a","t","i","v","e">>),
     court_id |-> Lit(<<"s","u","p","r","e","m","e","A","d","m","i","n","i","s","t","r","a","t","i","v","e">>)],
    [prefix |-> Lit(<<"s","u","p","r","e","m","e">>),
     court_id |-> Lit(<<"s","u","p","r","e","m","e">>)],
    [prefix |-> Lit(<<"a","d","m","i","n","i","s","t","r","a","t","i","v","e","I","P">>),
     court_id |-> Lit(<<"a","d","m","i","n","i","s","t","r","a","t","i","v","e","I","P">>)],
    [prefix |-> Lit(<<"a","d","m","i","n","i","s","t","r","a","t","i","v","e">>),
     court_id |-> Lit(<<"a","d","m","i","n","i","s","t","r","a","t","i","v","e">>)],
    [prefix |-> Lit(<<"j","u","v","e","n","i","l","e","C","o","u","r","t">>),
     court_id |-> Lit(<<"j","u","v","e","n","i","l","e","C","o","u","r","t">>)],
    [prefix |-> Lit(<<"a","r","e","i","o","s","p","a","g","o","s">>),
     court_id |-> Lit(<<"a","r","e","i","o","s","p","a","g","o","s">>)],
    [prefix |-> Lit(<<"c","l","r">>),
     court_id |-> Lit(<<"c","l","r">>)],
    [prefix |-> Lit(<<"j","s","c">>),
     court_id |-> Lit(<<"j","s","c">>)],
    [prefix |-> Lit(<<"r","s","c","c">>),
     court_id |-> Lit(<<"r","s","c","c">>)]>>
_COURT_LEVEL ==
  <<[court |-> Lit(<<"a","a","d">>), level |-> "supreme"],
    [court |-> Lit(<<"s","u","p","r","e","m","e">>), level |-> "supreme"],
    [court |-> Lit(<<"s","u","p","r","e","m","e","A","d","m","i","n","i","s","t","r","a","t","i","v","e">>), level |-> "supreme"],
    [court |-> Lit(<<"a","r","e","i","o","s","p","a","g","o","s">>), level |-> "foreign"],
    [court |-> Lit(<<"c","o","u","r","t","O","f","A","p","p","e","a","l">>), level |-> "appeal"],
    [court |-> Lit(<<"a","d","m","i","n","i","s","t","r","a","t","i","v","e","C","o","u","r","t","O","f","A","p","p","e","a","l">>), level |-> "appeal"],
    [court |-> Lit(<<"a","p","o","f","a","s","e","i","s","e","d">>), level |-> "first_instance"],
    [court |-> Lit(<<"a","d","m","i","n","i","s","t","r","a","t","i","v","e">>), level |-> "administrative"],
    [court |-> Lit(<<"a","d","m","i","n","i","s","t","r","a","t","i","v","e","I","P">>), level |-> "administrative"],
    [court |-> Lit(<<"j","u","v","e","n","i","l","e","C","o","u","r","t">>), level |-> "first_instance"],
    [court |-> Lit(<<"e","p","a">>), level |-> "other"],
    [court |-> Lit(<<"a","a","p">>), level |-> "other"],
    [court |-> Lit(<<"j","s","c">>), level |-> "supreme"],
    [court |-> Lit(<<"r","s","c","c">>), level |-> "supreme"],
    [court |-> Lit(<<"c","l","r">>), level |-> "supreme"],
    [court |-> Lit(<<"d","i","o","i","k","i","t","i","k","o">>), level |-> "administrative"]>>
_COURT_DISPLAY_NAME ==
  <<[court |-> Lit(<<"a","a","d">>),
     name |-> Lit(<<"Α","ν","ώ","τ","α","τ","ο"," ","Δ","ι","κ","α","σ","τ","ή","ρ","ι","ο">>)],
    [court |-> Lit(<<"s","u","p","r","e","m","e">>),
     name |-> Lit(<<"Α","ν","ώ","τ","α","τ","ο"," ","Δ","ι","κ","α","σ","τ","ή","ρ","ι","ο"," ","(","ν","έ","ο",")">>)],
    [court |-> Lit(<<"s","u","p","r","e","m","e","A","d","m","i","n","i","s","t","r","a","t","i","v","e">>),
     name |-> Lit(<<"Α","ν","ώ","τ","α","τ","ο"," ","Σ","υ","ν","τ","α","γ","μ","α","τ","ι","κ","ό"," ","Δ","ι","κ","α","σ","τ","ή","ρ","ι","ο">>)],
    [court |-> Lit(<<"a","r","e","i","o","s","p","a","g","o","s">>),
     name |-> Lit(<<"Ά","ρ","ε","ι","ο","ς"," ","Π","ά","γ","ο","ς"," ","(","Ε","λ","λ","ά","δ","α",")">>)],
    [court |-> Lit(<<"c","o","u","r","t","O","f","A","p","p","e","a","l">>),
     name |-> Lit(<<"Ε","φ","ε","τ","ε","ί","ο">>)],
    [court |-> Lit(<<"a","d","m","i","n","i","s","t","r","a","t","i","v","e","C","o","u","r","t","O","f","A","p","p","e","a","l">>),
     name |-> Lit(<<"Δ","ι","ο","ι","κ","η","τ","ι","κ","ό"," ","Ε","φ","ε","τ","ε","ί","ο">>)],
    [court |-> Lit(<<"a","p","o","f","a","s","e","i","s","e","d">>),
     name |-> Lit(<<"Ε","π","α","ρ","χ","ι","α","κ","ό"," ","Δ","ι","κ","α","σ","τ","ή","ρ","ι","ο">>)],
    [court |-> Lit(<<"a","d","m","i","n","i","s","t","r","a","t","i","v","e">>),
     name |-> Lit(<<"Δ","ι","ο","ι","κ","η","τ","ι","κ","ό"," ","Δ","ι","κ","α","σ","τ","ή","ρ","ι","ο">>)],
    [court |-> Lit(<<"a","d","m","i","n","i","s","t","r","a","t","i","v","e","I","P">>),
     name |-> Lit(<<"Δ","ι","ο","ι","κ","η","τ","ι","κ","ό"," ","Δ","ι","κ","α","σ","τ","ή","ρ","ι","ο"," ","Δ","ι","ε","θ","ν","ο","ύ","ς"," ","Π","ρ","ο","σ","τ","α","σ","ί","α","ς">>)],
    [court |-> Lit(<<"j","u","v","e","n","i","l","e","C","o","u","r","t">>),
     name |-> Lit(<<"Δ","ι","κ","α","σ","τ","ή","ρ","ι","ο"," ","Π","α","ί","δ","ω","ν">>)],
    [court |-> Lit(<<"e","p","a">>),
     name |-> Lit(<<"Ε","π","ι","τ","ρ","ο","π","ή"," ","Π","ρ","ο","σ","τ","α","σ","ί","α","ς"," ","Α","ν","τ","α","γ","ω","ν","ι","σ","μ","ο","ύ">>)],
    [court |-> Lit(<<"a","a","p">>),
     name |-> Lit(<<"Α","ν","α","θ","ε","ω","ρ","η","τ","ι","κ","ή"," ","Α","ρ","χ","ή"," ","Π","ρ","ο","σ","φ","ο","ρ","ώ","ν">>)],
    [court |-> Lit(<<"j","s","c">>),
     name |-> Lit(<<"S","u","p","r","e","m","e"," ","C","o","u","r","t"," ","o","f"," ","C","y","p","r","u","s">>)],
    [court |-> Lit(<<"r","s","c","c">>),
     name |-> Lit(<<"S","u","p","r","e","m","e"," ","C","o","n","s","t","i","t","u","t","i","o","n","a","l"," ","C","o","u","r","t">>)],
    [court |-> Lit(<<"c","l","r">>),
     name |-> Lit(<<"C","y","p","r","u","s"," ","L","a","w"," ","R","e","p","o","r","t","s">>)],
    [court |-> Lit(<<"d","i","o","i","k","i","t","i","k","o">>),
     name |-> Lit(<<"Δ","ι","ο","ι","κ","η","τ","ι","κ","ό"," ","Δ","ι","κ","α","σ","τ","ή","ρ","ι","ο">>)]>>
_JURISDICTION_FALLBACK ==
  <<[key |-> Lit(<<"p","o","l">>),
     value |-> Lit(<<"Π","Ο","Λ","Ι","Τ","Ι","Κ","Η"," ","Δ","Ι","Κ","Α","Ι","Ο","Δ","Ο","Σ","Ι","Α">>)],
    [key |-> Lit(<<"p","o","i","n">>),
     value |-> Lit(<<"Π","Ο","Ι","Ν","Ι","Κ","Η"," ","Δ","Ι","Κ","Α","Ι","Ο","Δ","Ο","Σ","Ι","Α">>)],
    [key |-> Lit(<<"o","i","k">>),
     value |-> Lit(<<"Ο","Ι","Κ","Ο","Γ","Ε","Ν","Ε","Ι","Α","Κ","Η"," ","Δ","Ι","Κ","Α","Ι","Ο","Δ","Ο","Σ","Ι","Α">>)],
    [key |-> Lit(<<"e","n","o","i","k">>),
     value |-> Lit(<<"Δ","Ι","Κ","Α","Ι","Ο","Δ","Ο","Σ","Ι","Α"," ","Ε","Ν","Ο","Ι","Κ","Ι","Ο","Σ","Τ","Α","Σ","Ι","Ο","Υ">>)],
    [key |-> Lit(<<"e","r","g">>),
     value |-> Lit(<<"Ε","Ρ","Γ","Α","Τ","Ι","Κ","Η"," ","Δ","Ι","Κ","Α","Ι","Ο","Δ","Ο","Σ","Ι","Α">>)],
    [key |-> Lit(<<"m","e","r","o","s","_","1">>),
     value |-> Lit(<<"Π","Ο","Ι","Ν","Ι","Κ","Η"," ","Δ","Ι","Κ","Α","Ι","Ο","Δ","Ο","Σ","Ι","Α">>)],
    [key |-> Lit(<<"m","e","r","o","s","_","2">>),
     value |-> Lit(<<"Π","Ο","Λ","Ι","Τ","Ι","Κ","Η"," ","Δ","Ι","Κ","Α","Ι","Ο","Δ","Ο","Σ","Ι","Α">>)],
    [key |-> Lit(<<"m","e","r","o","s","_","3">>),
     value |-> Lit(<<"Ε","Ρ","Γ","Α","Τ","Ι","Κ","Η"," ","Δ","Ι","Κ","Α","Ι","Ο","Δ","Ο","Σ","Ι","Α">>)],
    [key |-> Lit(<<"m","e","r","o","s","_","4">>),
     value |-> Lit(<<"Δ","Ι","Ο","Ι","Κ","Η","Τ","Ι","Κ","Η"," ","Δ","Ι","Κ","Α","Ι","Ο","Δ","Ο","Σ","Ι","Α">>)]>>
_SUBCOURT_CODES ==
  {Lit(<<"p","o","l">>),
   Lit(<<"p","o","i","n">>),
   Lit(<<"o","i","k">>),
   Lit(<<"e","n","o","i","k">>),
   Lit(<<"e","r","g">>)}
REFS_MARKER == Lit(<<"Α","Ν","Α","Φ","Ο","Ρ","Ε","Σ">>)
DECISION_MARKER == Lit(<<"Κ","Ε","Ι","Μ","Ε","Ν","Ο"," ","Α","Π","Ο","Φ","Α","Σ","Η","Σ">>)
LEGAL_ANALYSIS_MARKER == Lit(<<"Ν","Ο","Μ","Ι","Κ","Η"," ","Π","Τ","Υ","Χ","Η">>)
JURISDICTION_WORD == Lit(<<"Δ","Ι","Κ","Α","Ι","Ο","Δ","Ο","Σ","Ι","Α">>)
HEADER_COURT_LABEL == Lit(<<"Δ","ι","κ","α","σ","τ","ή","ρ","ι","ο",":"," ">>)
HEADER_YEAR_LABEL == Lit(<<"Έ","τ","ο","ς",":"," ">>)
HEADER_SEP == Lit(<<" ","|"," ">>)
TRUNCATION_MARKER == Lit(<<"\n","[",".",".",".","t","r","u","n","c","a","t","e","d","]">>)
SUBJECT_LABEL == Lit(<<"S","u","b","j","e","c","t",":">>)
SUBJECT_OPEN == Lit(<<"[","S","u","b","j","e","c","t",":"," ">>)
apofaseised == Lit(<<"a","p","o","f","a","s","e","i","s","e","d">>)
unknown == Lit(<<"u","n","k","n","o","w","n">>)
COURT_MATRIX ==
  <<[dir |-> Lit(<<"a","p","o","f","a","s","e","i","s","e","d","/","p","o","l">>),
     court |-> Lit(<<"a","p","o","f","a","s","e","i","s","e","d">>), level |-> "first_instance"],
    [dir |-> Lit(<<"a","p","o","f","a","s","e","i","s","e","d","/","p","o","i","n">>),
     court |-> Lit(<<"a","p","o","f","a","s","e","i","s","e","d">>), level |-> "first_instance"],
    [dir |-> Lit(<<"a","p","o","f","a","s","e","i","s","e","d","/","o","i","k">>),
     court |-> Lit(<<"a","p","o","f","a","s","e","i","s","e","d">>), level |-> "first_instance"],
    [dir |-> Lit(<<"a","p","o","f","a","s","e","i","s","e","d","/","e","n","o","i","k">>),
     court |-> Lit(<<"a","p","o","f","a","s","e","i","s","e","d">>), level |-> "first_instance"],
    [dir |-> Lit(<<"a","p","o","f","a","s","e","i","s","e","d","/","e","r","g">>),
     court |-> Lit(<<"a","p","o","f","a","s","e","i","s","e","d">>), level |-> "first_instance"],
    [dir |-> Lit(<<"a","p","o","f","a","s","e","i","s","/","a","a","d","/","m","e","r","o","s","_","1">>),
     court |-> Lit(<<"a","a","d">>), level |-> "supreme"],
    [dir |-> Lit(<<"a","p","o","f","a","s","e","i","s","/","a","a","d","/","m","e","r","o","s","_","2">>),
     court |-> Lit(<<"a","a","d">>), level |-> "supreme"],
    [dir |-> Lit(<<"a","p","o","f","a","s","e","i","s","/","a","a","d","/","m","e","r","o","s","_","3">>),
     court |-> Lit(<<"a","a","d">>), level |-> "supreme"],
    [dir |-> Lit(<<"a","p","o","f","a","s","e","i","s","/","a","a","d","/","m","e","r","o","s","_","4">>),
     court |-> Lit(<<"a","a","d">>), level |-> "supreme"],
    [dir |-> Lit(<<"c","o","u","r","t","O","f","A","p","p","e","a","l">>),
     court |-> Lit(<<"c","o","u","r","t","O","f","A","p","p","e","a","l">>), level |-> "appeal"],
    [dir |-> Lit(<<"a","d","m","i","n","i","s","t","r","a","t","i","v","e","C","o","u","r","t","O","f","A","p","p","e","a","l">>),
     court |-> Lit(<<"a","d","m","i","n","i","s","t","r","a","t","i","v","e","C","o","u","r","t","O","f","A","p","p","e","a","l">>), level |-> "appeal"],
    [dir |-> Lit(<<"s","u","p","r","e","m","e">>),
     court |-> Lit(<<"s","u","p","r","e","m","e">>), level |-> "supreme"],
    [dir |-> Lit(<<"s","u","p","r","e","m","e","A","d","m","i","n","i","s","t","r","a","t","i","v","e">>),
     court |-> Lit(<<"s","u","p","r","e","m","e","A","d","m","i","n","i","s","t","r","a","t","i","v","e">>), level |-> "supreme"],
    [dir |-> Lit(<<"a","d","m","i","n","i","s","t","r","a","t","i","v","e">>),
     court |-> Lit(<<"a","d","m","i","n","i","s","t","r","a","t","i","v","e">>), level |-> "administrative"],
    [dir |-> Lit(<<"a","d","m","i","n","i","s","t","r","a","t","i","v","e","I","P">>),
     court |-> Lit(<<"a","d","m","i","n","i","s","t","r","a","t","i","v","e","I","P">>), level |-> "administrative"],
    [dir |-> Lit(<<"a","r","e","i","o","s","p","a","g","o","s">>),
     court |-> Lit(<<"a","r","e","i","o","s","p","a","g","o","s">>), level |-> "foreign"],
    [dir |-> Lit(<<"j","u","v","e","n","i","l","e","C","o","u","r","t">>),
     court |-> Lit(<<"j","u","v","e","n","i","l","e","C","o","u","r","t">>), level |-> "first_instance"],
    [dir |-> Lit(<<"a","p","o","f","a","s","e","i","s","/","e","p","a">>),
     court |-> Lit(<<"e","p","a">>), level |-> "other"],
    [dir |-> Lit(<<"a","p","o","f","a","s","e","i","s","/","a","a","p">>),
     court |-> Lit(<<"a","a","p">>), level |-> "other"],
    [dir |-> Lit(<<"c","l","r">>),
     court |-> Lit(<<"c","l","r">>), level |-> "supreme"],
    [dir |-> Lit(<<"j","s","c">>),
     court |-> Lit(<<"j","s","c">>), level |-> "supreme"],
    [dir |-> Lit(<<"r","s","c","c">>),
     court |-> Lit(<<"r","s","c","c">>), level |-> "supreme"],
    [dir |-> Lit(<<"a","p","o","f","a","s","e","i","s","/","d","i","o","i","k","i","t","i","k","o">>),
     court |-> Lit(<<"d","i","o","i","k","i","t","i","k","o">>), level |-> "administrative"]>>

(***************************************************************************)
(* rag/chunker.py: path classification                                     *)
(***************************************************************************)
\* Path(rel_path).parts of a POSIX path
PathParts(rel_path) ==
  (IF StartsWith(rel_path, Lit(<<"/">>)) THEN <<Lit(<<"/">>)>> ELSE <<>>)
  \o SelectSeq(SplitOn(rel_path, "/"), LAMBDA s : s # <<>> /\ s # Lit(<<".">>))

\* A court detection that lets the last matching table entry win.
_detect_court_LastMatch(rel_path) ==
  IF \E k \in 1..Len(_PATH_TO_COURT) : Contains(rel_path, _PATH_TO_COURT[k].prefix)
  THEN LET k == CHOOSE k \in 1..Len(_PATH_TO_COURT) :
                  /\ Contains(rel_path, _PATH_TO_COURT[k].prefix)
                  /\ \A j \in (k + 1)..Len(_PATH_TO_COURT) :
                       ~Contains(rel_path, _PATH_TO_COURT[j].prefix)
       IN _PATH_TO_COURT[k].court_id
  ELSE LET parts == PathParts(rel_path) IN
       IF parts # <<>> THEN parts[1] ELSE unknown

_detect_court(rel_path) ==
  IF \E k \in 1..Len(_PATH_TO_COURT) : Contains(rel_path, _PATH_TO_COURT[k].prefix)
  THEN LET k == CHOOSE k \in 1..Len(_PATH_TO_COURT) :
                  /\ Contains(rel_path, _PATH_TO_COURT[k].prefix)
                  /\ \A j \in 1..(k - 1) : ~Contains(rel_path, _PATH_TO_COURT[j].prefix)
       IN _PATH_TO_COURT[k].court_id
  ELSE LET parts == PathParts(rel_path) IN
       IF parts # <<>> THEN parts[1] ELSE unknown

\* A level lookup that hands an unmapped court id back as its own level.
_detect_court_level_NoDefault(court) ==
  IF \E k \in 1..Len(_COURT_LEVEL) : _COURT_LEVEL[k].court = court
  THEN _COURT_LEVEL[CHOOSE k \in 1..Len(_COURT_LEVEL) : _COURT_LEVEL[k].court = court].level
  ELSE "unknown"

_detect_court_level(court) ==
  IF \E k \in 1..Len(_COURT_LEVEL) : _COURT_LEVEL[k].court = court
  THEN _COURT_LEVEL[CHOOSE k \in 1..Len(_COURT_LEVEL) : _COURT_LEVEL[k].court = court].level
  ELSE "other"

\* A subcourt detection that does not look at the court id.
_detect_subcourt_AnyCourt(doc_id, court) ==
  LET parts == SplitOn(doc_id, "/") IN
  IF Len(parts) >= 2 /\ parts[2] \in _SUBCOURT_CODES THEN parts[2] ELSE <<>>

_detect_subcourt(doc_id, court) ==
  IF court # apofaseised THEN <<>>
  ELSE LET parts == SplitOn(doc_id, "/") IN
       IF Len(parts) >= 2 /\ parts[2] \in _SUBCOURT_CODES THEN parts[2] ELSE <<>>

\* re.search(r"/(\d{4})" + close, rel_path): the four digits, or the empty string
YearBefore(rel_path, close) ==
  LET Hit(i) == /\ i + 5 <= Len(rel_path)
                /\ rel_path[i].c = "/"
                /\ \A j \in 1..4 : rel_path[i + j].c \in Digits
                /\ rel_path[i + 5].c = close
  IN IF \E i \in 1..Len(rel_path) : Hit(i)
     THEN LET i == CHOOSE i \in 1..Len(rel_path) :
                     Hit(i) /\ \A j \in 1..(i - 1) : ~Hit(j)
          IN SubSeq(rel_path, i + 1, i + 4)
     ELSE <<>>

_detect_year(rel_path) ==
  IF YearBefore(rel_path, "/") # <<>> THEN YearBefore(rel_path, "/")
  ELSE YearBefore(rel_path, "_")

(***************************************************************************)
(* rag/chunker.py: cleaning and section extraction                         *)
(***************************************************************************)
\* The run that closes the match of \[([^\]]*)\]\([^)]*\) opening at run s, or 0.
LinkEnd(t, s) ==
  IF t[s].c # "[" THEN 0
  ELSE LET e == FirstIdx(t, s + 1, "]") IN
       IF e = 0 \/ e = Len(t) THEN 0
       ELSE IF t[e + 1].c # "(" THEN 0
       ELSE FirstIdx(t, e + 2, ")")

\* _link_re.search(t) is not None
HasLink(t) == \E s \in 1..Len(t) : LinkEnd(t, s) > 0

\* _link_re.sub(r"\1", t): one pass over the leftmost non-overlapping matches
RECURSIVE SubLinksFrom(_, _)
SubLinksFrom(t, i) ==
  IF \A s \in i..Len(t) : LinkEnd(t, s) = 0 THEN SubSeq(t, i, Len(t))
  ELSE LET s == CHOOSE s \in i..Len(t) :
                  LinkEnd(t, s) > 0 /\ \A j \in i..(s - 1) : LinkEnd(t, j) = 0
       IN SubSeq(t, i, s - 1)
          \o SubSeq(t, s + 1, FirstIdx(t, s + 1, "]") - 1)
          \o SubLinksFrom(t, LinkEnd(t, s) + 1)

SubLinks(t) == Norm(SubLinksFrom(t, 1))

\* re.sub(r"-{2,}", "-", t)
CollapseDashes(t) ==
  DropWhere(t, {i \in 2..Len(t) : t[i].c = "-" /\ t[i - 1].c = "-"})

\* re.sub(r"\s+", " ", t)
CollapseWhitespace(t) ==
  LET spaced == Norm([i \in 1..Len(t) |->
                       IF t[i].c \in Whitespace THEN [c |-> " ", n |-> 1] ELSE t[i]])
  IN [i \in 1..Len(spaced) |->
       IF spaced[i].c = " " THEN [c |-> " ", n |-> 1] ELSE spaced[i]]

_clean_markdown(line) ==
  LET s1 == Remove(line, {"*", "#"})
      s2 == SubLinks(s1)
      s3 == Replace(s2, "c1", "-")
      s4 == Replace(s3, "nbhy", "-")
      s5 == CollapseDashes(s4)
  IN Strip(CollapseWhitespace(s5))

\* A title extraction whose fallback keeps the whole line.
_extract_title_WholeLine(text) ==
  LET lines == Lines(text)
      line(i) == Strip(lines[i])
      IsH1(i) == StartsWith(line(i), Lit(<<"#", " ">>))
      IsFallback(i) == line(i) # <<>> /\ ~StartsWith(line(i), Lit(<<"-", "-", "-">>))
      raw == IF \E i \in 1..Len(lines) : IsH1(i)
             THEN LET i == CHOOSE i \in 1..Len(lines) :
                             IsH1(i) /\ \A j \in 1..(i - 1) : ~IsH1(j)
                  IN Strip(Drop(line(i), 2))
             ELSE IF \E i \in 1..Len(lines) : IsFallback(i)
             THEN LET i == CHOOSE i \in 1..Len(lines) :
                             IsFallback(i) /\ \A j \in 1..(i - 1) : ~IsFallback(j)
                  IN line(i)
             ELSE <<>>
  IN IF raw = <<>> THEN <<>>
     ELSE Remove(_clean_markdown(raw), {"c1"})

_extract_title(text) ==
  LET lines == Lines(text)
      line(i) == Strip(lines[i])
      IsH1(i) == StartsWith(line(i), Lit(<<"#", " ">>))
      IsFallback(i) == line(i) # <<>> /\ ~StartsWith(line(i), Lit(<<"-", "-", "-">>))
      raw == IF \E i \in 1..Len(lines) : IsH1(i)
             THEN LET i == CHOOSE i \in 1..Len(lines) :
                             IsH1(i) /\ \A j \in 1..(i - 1) : ~IsH1(j)
                  IN Strip(Drop(line(i), 2))
             ELSE IF \E i \in 1..Len(lines) : IsFallback(i)
             THEN LET i == CHOOSE i \in 1..Len(lines) :
                             IsFallback(i) /\ \A j \in 1..(i - 1) : ~IsFallback(j)
                  IN Take(line(i), TITLE_FALLBACK_CHARS)
             ELSE <<>>
  IN IF raw = <<>> THEN <<>>
     ELSE Remove(_clean_markdown(raw), {"c1"})

\* re.search(r"\*{0,4}" + marker + r"\*{0,4}" (+ ":?" with colon), t): whether it
\* matches, and the text before and after the leftmost match.
MarkerSearch(t, marker, colon) ==
  IF ~Contains(t, marker) THEN [found |-> FALSE, before |-> t, after |-> <<>>]
  ELSE
    LET i == CHOOSE i \in 1..Len(t) :
               MatchAt(t, marker, i) /\ \A j \in 1..(i - 1) : ~MatchAt(t, marker, j)
        e == i + Len(marker) - 1
        Min(a, b) == IF a < b THEN a ELSE b
        pre == IF i > 1 /\ t[i - 1].c = "*" THEN t[i - 1].n ELSE 0
        post == IF e < Len(t) /\ t[e + 1].c = "*" THEN t[e + 1].n ELSE 0
        preUsed == Min(pre, MARKER_MAX_STARS)
        postUsed == Min(post, MARKER_MAX_STARS)
        rest == IF post > 0 THEN e + 2 ELSE e + 1
        colonUsed == colon /\ post = postUsed /\ rest <= Len(t) /\ t[rest].c = ":"
    IN [found |-> TRUE,
        before |-> SubSeq(t, 1, IF pre > 0 THEN i - 2 ELSE i - 1)
                   \o Run("*", pre - preUsed),
        after |-> Run("*", post - postUsed)
                  \o SubSeq(t, IF colonUsed THEN rest + 1 ELSE rest, Len(t))]

\* A jurisdiction extraction whose path fallback looks for the key anywhere in
\* the doc_id, not for the key between two slashes.
_extract_jurisdiction_KeyAnywhere(text, doc_id) ==
  LET m == MarkerSearch(text, DECISION_MARKER, FALSE)
      lines == IF m.found THEN Lines(m.after) ELSE <<>>
      first == SubSeq(lines, 1, IF Len(lines) < JURISDICTION_LINES
                                THEN Len(lines) ELSE JURISDICTION_LINES)
      Hit(i) == Contains(_clean_markdown(first[i]), JURISDICTION_WORD)
      Key(k) == Contains(doc_id, _JURISDICTION_FALLBACK[k].key)
  IN IF \E i \in 1..Len(first) : Hit(i)
     THEN _clean_markdown(first[CHOOSE i \in 1..Len(first) :
                                  Hit(i) /\ \A j \in 1..(i - 1) : ~Hit(j)])
     ELSE IF \E k \in 1..Len(_JURISDICTION_FALLBACK) : Key(k)
     THEN _JURISDICTION_FALLBACK[CHOOSE k \in 1..Len(_JURISDICTION_FALLBACK) :
                                   Key(k) /\ \A j \in 1..(k - 1) : ~Key(j)].value
     ELSE <<>>

\* A jurisdiction extraction that looks at every line after the marker, not
\* at the first 30 only.
_extract_jurisdiction_AllLines(text, doc_id) ==
  LET m == MarkerSearch(text, DECISION_MARKER, FALSE)
      first == IF m.found THEN Lines(m.after) ELSE <<>>
      Hit(i) == Contains(_clean_markdown(first[i]), JURISDICTION_WORD)
      Key(k) == Contains(doc_id, Cat(Cat(Lit(<<"/">>), _JURISDICTION_FALLBACK[k].key),
                                     Lit(<<"/">>)))
  IN IF \E i \in 1..Len(first) : Hit(i)
     THEN _clean_markdown(first[CHOOSE i \in 1..Len(first) :
                                  Hit(i) /\ \A j \in 1..(i - 1) : ~Hit(j)])
     ELSE IF \E k \in 1..Len(_JURISDICTION_FALLBACK) : Key(k)
     THEN _JURISDICTION_FALLBACK[CHOOSE k \in 1..Len(_JURISDICTION_FALLBACK) :
                                   Key(k) /\ \A j \in 1..(k - 1) : ~Key(j)].value
     ELSE <<>>

_extract_jurisdiction(text, doc_id) ==
  LET m == MarkerSearch(text, DECISION_MARKER, FALSE)
      lines == IF m.found THEN Lines(m.after) ELSE <<>>
      first == SubSeq(lines, 1, IF Len(lines) < JURISDICTION_LINES
                                THEN Len(lines) ELSE JURISDICTION_LINES)
      Hit(i) == Contains(_clean_markdown(first[i]), JURISDICTION_WORD)
      Key(k) == Contains(doc_id, Cat(Cat(Lit(<<"/">>), _JURISDICTION_FALLBACK[k].key),
                                     Lit(<<"/">>)))
  IN IF \E i \in 1..Len(first) : Hit(i)
     THEN _clean_markdown(first[CHOOSE i \in 1..Len(first) :
                                  Hit(i) /\ \A j \in 1..(i - 1) : ~Hit(j)])
     ELSE IF \E k \in 1..Len(_JURISDICTION_FALLBACK) : Key(k)
     THEN _JURISDICTION_FALLBACK[CHOOSE k \in 1..Len(_JURISDICTION_FALLBACK) :
                                   Key(k) /\ \A j \in 1..(k - 1) : ~Key(j)].value
     ELSE <<>>

NL2 == Run("\n", 2)

\* A references stripper that, without a REFERENCES marker, trims what follows
\* the DECISION TEXT marker as it does when the section is present.
_strip_references_TrimBody(text) ==
  LET refs_match == MarkerSearch(text, REFS_MARKER, FALSE)
      body_match == MarkerSearch(text, DECISION_MARKER, TRUE)
      before_refs == RStrip(refs_match.before)
      after_body == LStrip(body_match.after)
  IN IF ~refs_match.found
     THEN IF body_match.found THEN Cat(body_match.before, after_body) ELSE text
     ELSE IF body_match.found /\ TLen(body_match.before) > TLen(refs_match.before)
     THEN IF before_refs # <<>> THEN Cat(Cat(before_refs, NL2), after_body)
          ELSE after_body
     ELSE before_refs

_strip_references(text) ==
  LET refs_match == MarkerSearch(text, REFS_MARKER, FALSE)
      body_match == MarkerSearch(text, DECISION_MARKER, TRUE)
      before_refs == RStrip(refs_match.before)
      after_body == LStrip(body_match.after)
  IN IF ~refs_match.found
     THEN IF body_match.found THEN Cat(body_match.before, body_match.after) ELSE text
     ELSE IF body_match.found /\ TLen(body_match.before) > TLen(refs_match.before)
     THEN IF before_refs # <<>> THEN Cat(Cat(before_refs, NL2), after_body)
          ELSE after_body
     ELSE before_refs

\* re.findall(r"\]\(([^)]*\.md)\)", text)
\* The run that closes the match of \]\(([^)]*\.md)\) opening at run i, or 0.
RefEnd(t, i) ==
  IF i + 1 > Len(t) THEN 0
  ELSE IF t[i].c # "]" \/ t[i + 1].c # "(" THEN 0
  ELSE LET f == FirstIdx(t, i + 2, ")") IN
       IF f >= i + 5 /\ SubSeq(t, f - 3, f - 1) = Lit(<<".", "m", "d">>) THEN f ELSE 0

RECURSIVE FindRefsFrom(_, _)
FindRefsFrom(t, i) ==
  IF \A s \in i..Len(t) : RefEnd(t, s) = 0 THEN <<>>
  ELSE LET s == CHOOSE s \in i..Len(t) :
                  RefEnd(t, s) > 0 /\ \A j \in i..(s - 1) : RefEnd(t, j) = 0
       IN <<SubSeq(t, s + 2, RefEnd(t, s) - 1)>> \o FindRefsFrom(t, RefEnd(t, s) + 1)

\* list(dict.fromkeys(refs))
RECURSIVE Dedupe(_)
Dedupe(s) ==
  IF s = <<>> THEN <<>>
  ELSE LET init == Dedupe(SubSeq(s, 1, Len(s) - 1))
           last == s[Len(s)]
       IN IF \E i \in 1..Len(init) : init[i] = last THEN init ELSE Append(init, last)

\* A cross-reference extraction that reads the text left once the references
\* section is stripped.
_extract_cross_refs_Body(text) == Dedupe(FindRefsFrom(_strip_references(text), 1))

_extract_cross_refs(text) == Dedupe(FindRefsFrom(text, 1))

\* re.sub(r"^[-_]{3,}$", "", t, flags=re.MULTILINE)
RemoveRules(t) ==
  LET Rule(a, b) == /\ b - a + 1 >= 3
                    /\ \A k \in a..b : t[k].c \in {"-", "_"}
                    /\ (a = 1 \/ t[a - 1].c = "\n")
                    /\ (b = Len(t) \/ t[b + 1].c = "\n")
  IN DropWhere(t, {i \in 1..Len(t) :
                     /\ t[i].c \in {"-", "_"}
                     /\ \E a \in 1..i : \E b \in i..Len(t) : Rule(a, b)})

\* re.sub(r"\n{3,}", "\n\n", t) and re.sub(r" {2,}", " ", t)
CollapseRuns(t, ch, atLeast, to) ==
  [i \in 1..Len(t) |->
    IF t[i].c = ch /\ t[i].n >= atLeast THEN [c |-> ch, n |-> to] ELSE t[i]]

\* A link stripper that applies the substitution once.
StripLinks_OnePass(t) == SubLinks(t)

\* while _link_re.search(text): text = _link_re.sub(r"\1", text)
RECURSIVE StripLinks(_)
StripLinks(t) == IF HasLink(t) THEN StripLinks(SubLinks(t)) ELSE t

\* A body cleaner that leaves the C1 control characters in.
_clean_chunk_text_KeepC1(text) ==
  LET s1 == Remove(text, {"*", "#"})
      s2 == StripLinks(s1)
      s4 == Remove(Replace(Replace(s2, "nbsp", " "), "nbhy", "-"), {"shy", "cdot"})
      s5 == RemoveRules(s4)
      s6 == CollapseRuns(CollapseRuns(s5, "\n", 3, 2), " ", 2, 1)
  IN Strip(s6)

_clean_chunk_text(text) ==
  LET s1 == Remove(text, {"*", "#"})
      s2 == StripLinks(s1)
      s3 == Remove(s2, {"c1"})
      s4 == Remove(Replace(Replace(s3, "nbsp", " "), "nbhy", "-"), {"shy", "cdot"})
      s5 == RemoveRules(s4)
      s6 == CollapseRuns(CollapseRuns(s5, "\n", 3, 2), " ", 2, 1)
  IN Strip(s6)

\* A header builder that keeps the whole title.
_build_chunk_header_WholeTitle(court_name, jurisdiction, year, title) ==
  LET p1 == Cat(HEADER_COURT_LABEL, court_name)
      p2 == IF jurisdiction # <<>> THEN Cat(Cat(p1, HEADER_SEP), jurisdiction) ELSE p1
      p3 == IF year # <<>>
            THEN Cat(Cat(p2, HEADER_SEP), Cat(HEADER_YEAR_LABEL, year)) ELSE p2
  IN IF title # <<>> THEN Cat(Cat(p3, HEADER_SEP), title) ELSE p3

_build_chunk_header(court_name, jurisdiction, year, title) ==
  LET p1 == Cat(HEADER_COURT_LABEL, court_name)
      p2 == IF jurisdiction # <<>> THEN Cat(Cat(p1, HEADER_SEP), jurisdiction) ELSE p1
      p3 == IF year # <<>>
            THEN Cat(Cat(p2, HEADER_SEP), Cat(HEADER_YEAR_LABEL, year)) ELSE p2
  IN IF title # <<>>
     THEN Cat(Cat(p3, HEADER_SEP), Take(title, HEADER_TITLE_CHARS)) ELSE p3

(***************************************************************************)
(* rag/chunker.py: _splitter.split_text.  RecursiveCharacterTextSplitter   *)
(* is a library outside the repository; it is modelled by what its         *)
(* configuration (chunk_size, chunk_overlap, separators, whitespace        *)
(* stripping) allows: the pieces are non-empty stripped slices of the text *)
(* in reading order, cut at separators, that cover the text; a piece may   *)
(* start up to CHUNK_OVERLAP_CHARS characters before the end of the piece  *)
(* before it; a piece exceeds CHUNK_SIZE_CHARS only when it holds no       *)
(* separator; a text that fits in one chunk comes back as one piece and    *)
(* the empty text as no piece.  Which cuts are taken is left open.         *)
(***************************************************************************)
\* The maximal separator-free slices of t from run i on, as [lo, hi] run ranges.
RECURSIVE Segments(_, _)
Segments(t, i) ==
  IF i > Len(t) THEN <<>>
  ELSE IF t[i].c \in SEPARATORS THEN Segments(t, i + 1)
  ELSE LET stop == IF \E j \in i..Len(t) : t[j].c \in SEPARATORS
                   THEN (CHOOSE j \in i..Len(t) :
                           /\ t[j].c \in SEPARATORS
                           /\ \A k \in i..(j - 1) : t[k].c \notin SEPARATORS) - 1
                   ELSE Len(t)
       IN <<[lo |-> i, hi |-> stop]>> \o Segments(t, stop + 1)

Slice(t, segs, i, j) == Strip(SubSeq(t, segs[i].lo, segs[j].hi))

\* The piece lists whose next piece starts at segment i and must end after segment done.
RECURSIVE PieceLists(_, _, _, _)
PieceLists(t, segs, i, done) ==
  LET m == Len(segs)
      Fits(j) == i = j \/ TLen(Slice(t, segs, i, j)) <= CHUNK_SIZE_CHARS
      Overlap(i2, j) == i2 = j + 1 \/ TLen(Slice(t, segs, i2, j)) <= CHUNK_OVERLAP_CHARS
      Rest(j) == IF j = m THEN {<<>>}
                 ELSE UNION {PieceLists(t, segs, i2, j) :
                               i2 \in {k \in (i + 1)..(j + 1) : Overlap(k, j)}}
  IN UNION {{<<Slice(t, segs, i, j)>> \o rest : rest \in Rest(j)} :
              j \in {k \in (done + 1)..m : k >= i /\ Fits(k)}}

\* A splitter that hands back a text within the chunk size as its one piece,
\* the empty text included.
split_text_AlwaysOnePiece(text) ==
  IF TLen(text) <= CHUNK_SIZE_CHARS THEN {<<text>>}
  ELSE PieceLists(text, Segments(text, 1), 1, 0)

split_text(text) ==
  IF text = <<>> THEN {<<>>}
  ELSE IF TLen(text) <= CHUNK_SIZE_CHARS THEN {<<text>>}
  ELSE PieceLists(text, Segments(text, 1), 1, 0)

(***************************************************************************)
(* rag/document_extractor.py                                               *)
(***************************************************************************)
MAX_CONTENT_CHARS == 3500
TRUNCATION_MARGIN == 100
SUBJECT_CHARS == 200
RECORD_TITLE_CHARS == 200

\* text.find(marker) and the text after the match
After(t, marker) ==
  LET i == CHOOSE i \in 1..Len(t) :
             MatchAt(t, marker, i) /\ \A j \in 1..(i - 1) : ~MatchAt(t, marker, j)
  IN SubSeq(t, i + Len(marker), Len(t))

\* m = re.search(r"Subject:\s*(.+?)(?:\n|$)", text); m.group(1).strip()[:200]
_extract_subject(text) ==
  IF ~Contains(text, SUBJECT_LABEL) THEN <<>>
  ELSE LET rest == LStrip(After(text, SUBJECT_LABEL)) IN
       IF rest = <<>> THEN <<>>
       ELSE Take(Strip(Lines(rest)[1]), SUBJECT_CHARS)

\* while body and body[0] in ":* \t\n": body = body[1:].lstrip(), after .lstrip()
SkipPunctuation(t) ==
  LET Skipped == Whitespace \cup {":", "*"} IN
  IF \A i \in 1..Len(t) : t[i].c \in Skipped THEN <<>>
  ELSE LET k == CHOOSE i \in 1..Len(t) :
                  t[i].c \notin Skipped /\ \A j \in 1..(i - 1) : t[j].c \in Skipped
       IN SubSeq(t, k, Len(t))

\* The body of a cleaned text: what follows the first marker it holds.
BodyOf(cleaned) ==
  IF Contains(cleaned, LEGAL_ANALYSIS_MARKER)
  THEN SkipPunctuation(After(cleaned, LEGAL_ANALYSIS_MARKER))
  ELSE IF Contains(cleaned, DECISION_MARKER)
  THEN SkipPunctuation(After(cleaned, DECISION_MARKER))
  ELSE cleaned

_extract_body_for_embedding(text) == BodyOf(_clean_chunk_text(_strip_references(text)))

\* "\n\n".join(parts) for parts = [title if title] + [f"[Subject: {subject}]" if
\* subject] + [body]
JoinParts(ttl, subject, body) ==
  (IF ttl # <<>> THEN Cat(ttl, NL2) ELSE <<>>)
  \o (IF subject # <<>>
      THEN Cat(Cat(Cat(SUBJECT_OPEN, subject), Lit(<<"]">>)), NL2) ELSE <<>>)
  \o body

\* A truncation that cuts at the cap itself and then appends the marker.
Truncated_AtCap(content) ==
  IF TLen(content) > MAX_CONTENT_CHARS
  THEN Cat(Take(content, MAX_CONTENT_CHARS), TRUNCATION_MARKER)
  ELSE content

\* content[: MAX_CONTENT_CHARS - 100] + "\n[...truncated]" when content is too long
Truncated(content) ==
  IF TLen(content) > MAX_CONTENT_CHARS
  THEN Cat(Take(content, MAX_CONTENT_CHARS - TRUNCATION_MARGIN), TRUNCATION_MARKER)
  ELSE content

\* A record whose title is cut like the title of the chunk header.
DocumentRecord_HeaderTitle(id, ttl, subject, body, court_id, jur) ==
  [doc_id |-> id,
   content |-> Truncated(Norm(JoinParts(ttl, subject, body))),
   title |-> Take(ttl, HEADER_TITLE_CHARS),
   court |-> court_id,
   year |-> _detect_year(id),
   court_level |-> _detect_court_level(court_id),
   subcourt |-> _detect_subcourt(id, court_id),
   jurisdiction |-> jur]

DocumentRecord(id, ttl, subject, body, court_id, jur) ==
  [doc_id |-> id,
   content |-> Truncated(Norm(JoinParts(ttl, subject, body))),
   title |-> Take(ttl, RECORD_TITLE_CHARS),
   court |-> court_id,
   year |-> _detect_year(id),
   court_level |-> _detect_court_level(court_id),
   subcourt |-> _detect_subcourt(id, court_id),
   jurisdiction |-> jur]

\* if not text or len(text.strip()) < 50  (document_extractor.py)
DocTooShort(t) == t = <<>> \/ TLen(Strip(t)) < MIN_TEXT_CHARS

\* An extraction that returns a record whatever the body is.
RecordFor_Always(t, id, body) ==
  <<DocumentRecord(id, _extract_title(t), _extract_subject(t), body,
                   _detect_court(id), _extract_jurisdiction(t, id))>>

\* if not body.strip(): return None
RecordFor(t, id, body) ==
  IF Strip(body) = <<>> THEN <<>>
  ELSE <<DocumentRecord(id, _extract_title(t), _extract_subject(t), body,
                        _detect_court(id), _extract_jurisdiction(t, id))>>

\* The return value of extract_document: <<>> for None, <<record>> otherwise.
extract_document(t, id) ==
  IF DocTooShort(t) THEN <<>>
  ELSE RecordFor(t, id, _extract_body_for_embedding(t))

(***************************************************************************)
(* Inputs.  A text is a concatenation of at most MaxParts parts; the parts *)
(* are the structures the cleaning and extraction passes look for, and     *)
(* paragraphs of plain letters long enough to cross each threshold.        *)
(***************************************************************************)
MaxParts == 2

X(n) == Run("x", n)
Para(n) == Cat(X(n), NL2)
Stars(n) == Run("*", n)

Parts ==
  { \* a few letters among encoding noise, no line break
    Lit(<<"x", "c1", "x", "nbsp", "nbhy", "shy", "cdot", "x">>),
    \* a long run of spaces
    Run(" ", 60),
    \* paragraphs of plain letters
    Para(300), Para(1990),
    \* the H1 marker of a title line
    Lit(<<"#", " ">>),
    \* the section markers, as the converter writes them
    Cat(Cat(Stars(2), REFS_MARKER), Lit(<<"*", "*", ":", "\n">>)),
    Cat(Cat(Stars(2), DECISION_MARKER), Lit(<<"*", "*", ":", "\n">>)),
    \* a jurisdiction line with a broken dash
    Cat(Cat(Stars(2), JURISDICTION_WORD), Lit(<<"*", "*", "c1", "x", "\n">>)),
    \* a bold link nested in a bold link
    Lit(<<"*", "*", "*", "[", "*", "*", "*", "[", "x", "]", "(", "/", "x", ".", "m", "d", ")",
          "*", "*", "*", "]", "(", "/", "y", ".", "m", "d", ")", "\n">>),
    \* decoration only: a heading marker, a line of asterisks and a horizontal rule
    Cat(Cat(Lit(<<"#", "#", " ">>), Stars(50)), Lit(<<"\n", "-", "-", "-", "\n">>)) }

RECURSIVE TextsUpTo(_)
TextsUpTo(k) ==
  IF k = 0 THEN {<<>>}
  ELSE LET shorter == TextsUpTo(k - 1) IN
       shorter \cup {Cat(t, p) : t \in shorter, p \in Parts}

Texts == TextsUpTo(MaxParts)

\* Document identifiers: every directory of the test matrix, with and without a
\* year directory, and file names as the scraper writes them.
Slash == Lit(<<"/">>)
MidSegments ==
  { Lit(<<"2", "0", "2", "4">>),
    Lit(<<"a", "p", "o", "f", "a", "s", "e", "i", "s", "/", "a", "a", "d">>) }
FileNames ==
  { Lit(<<"y", ".", "m", "d">>),
    Lit(<<"1", "9", "6", "1", "_", "1", "_", "0", "0", "0", "1", ".", "m", "d">>),
    Lit(<<"a", "d", "m", "i", "n", "i", "s", "t", "r", "a", "t", "i", "v", "e", "_", "1",
          ".", "m", "d">>) }

MatrixDocIds ==
  {Cat(Cat(Cat(Cat(COURT_MATRIX[row].dir, Slash), mid), Slash), file) :
     row \in 1..Len(COURT_MATRIX), mid \in MidSegments, file \in FileNames}

OtherDocIds ==
  { <<>>,
    Lit(<<"y", ".", "m", "d">>),
    Lit(<<"m", "i", "s", "c", "/", "y", ".", "m", "d">>),
    Lit(<<"a", "p", "o", "f", "a", "s", "e", "i", "s", "e", "d", "/", "2", "0", "2", "0",
          "/", "p", "o", "l", "/", "y", ".", "m", "d">>) }

DocIds == MatrixDocIds \cup OtherDocIds

TextDocIds ==
  { Lit(<<"a", "p", "o", "f", "a", "s", "e", "i", "s", "e", "d", "/", "p", "o", "l", "/",
          "2", "0", "2", "0", "/", "y", ".", "m", "d">>) }

PathTexts ==
  { Para(300),
    Cat(Cat(Cat(DECISION_MARKER, Lit(<<"\n">>)), Cat(JURISDICTION_WORD, Lit(<<"\n">>))),
        Para(300)),
    Cat(Cat(Stars(50), Lit(<<"\n">>)), Para(300)) }

\* Documents whose jurisdiction line is the 30th and the 31st line after the
\* DECISION TEXT marker.
LineLimitTexts ==
  { Cat(Cat(Cat(DECISION_MARKER, Run("\n", k)), Cat(JURISDICTION_WORD, Lit(<<"\n">>))),
        Para(300)) : k \in {JURISDICTION_LINES - 1, JURISDICTION_LINES} }

\* Documents with a references section: three links to two targets between
\* the markers, a third target in the body; without a title before the
\* section; without a DECISION TEXT marker; with that marker before the
\* section only; and with it before and after the section.
LinkTo(name) == Lit(<<"[", "x", "]", "(", "/", name, ".", "m", "d", ")", "\n">>)
RefsLine == Cat(Cat(Stars(2), REFS_MARKER), Lit(<<"*", "*", ":", "\n">>))
DecisionLine == Cat(Cat(Stars(2), DECISION_MARKER), Lit(<<"*", "*", ":", "\n">>))
RefsBlock == Cat(RefsLine, Cat(Cat(LinkTo("z"), LinkTo("x")), LinkTo("z")))
BodyBlock == Cat(DecisionLine, Cat(LinkTo("y"), Para(300)))
SectionTexts ==
  { Cat(Cat(Para(300), RefsBlock), BodyBlock),
    Cat(RefsBlock, BodyBlock),
    Cat(Para(300), RefsBlock),
    Cat(Cat(BodyBlock, RefsBlock), X(10)),
    Cat(Cat(BodyBlock, RefsBlock), BodyBlock) }

\* Longer documents: three and two full pieces with and without a short
\* tail; a jurisdiction line under the DECISION TEXT marker; encoding noise
\* before the marker; the REFERENCES marker as the heading line.
LongTexts ==
  { Cat(Cat(Para(1990), Para(1990)), Para(1990)),
    Cat(Cat(Para(1990), Para(1990)), Para(300)),
    Cat(Cat(DecisionLine,
            Cat(Cat(Stars(2), JURISDICTION_WORD), Lit(<<"*", "*", "c1", "x", "\n">>))),
        Para(300)),
    Cat(Cat(Lit(<<"x", "c1", "x", "nbsp", "nbhy", "shy", "cdot", "x">>), DecisionLine),
        Para(300)),
    Cat(Cat(Para(300), Lit(<<"#", " ">>)), RefsLine) }

\* Documents that end in short paragraphs: a full-size paragraph followed by
\* two paragraphs that together stay under the tail threshold, a long
\* paragraph followed by two short ones, and a full-size paragraph followed
\* by one just over the threshold.
MergeTexts ==
  { Cat(Cat(Para(2000), Para(249)), Para(248)),
    Cat(Cat(Para(1990), Para(200)), Para(200)),
    Cat(Para(2000), Para(550)) }

\* A document whose first line is a title in bold, without a heading marker.
BoldTitle == Lit(<<"Τ", "ί", "τ", "λ", "ο", "ς", " ", "Υ", "π", "ό", "θ", "ε", "σ", "η", "ς">>)
TitleTexts ==
  { Cat(Cat(Cat(Cat(Stars(2), BoldTitle), Stars(2)), Lit(<<"\n">>)), Para(300)) }

\* Documents for the document-level record: a heading and a decision text; a
\* subject line and a legal-analysis section after the decision text; a
\* legal-analysis marker with nothing after it; a subject line and two long
\* paragraphs.
HeadingLine == Cat(Cat(Lit(<<"#", " ">>), X(10)), Lit(<<"\n">>))
SubjectLine == Cat(Cat(SUBJECT_LABEL, Lit(<<" ">>)), Cat(X(5), Lit(<<"\n">>)))
LegalLine == Cat(Cat(Stars(2), LEGAL_ANALYSIS_MARKER), Lit(<<"*", "*", ":", "\n">>))
RecordTexts ==
  { Cat(Cat(HeadingLine, DecisionLine), Para(300)),
    Cat(Cat(Cat(HeadingLine, SubjectLine), Cat(DecisionLine, Para(300))),
        Cat(LegalLine, Para(300))),
    Cat(Cat(HeadingLine, Para(300)), LegalLine),
    Cat(Cat(HeadingLine, SubjectLine), Cat(Para(1990), Para(1990))) }

\* Documents that end with a horizontal rule followed by a space, and that
\* begin with an indented one.
RuleTexts ==
  { Cat(Para(300), Lit(<<"-", "-", "-", " ", "\n">>)),
    Cat(Lit(<<" ", " ", "-", "-", "-", "\n">>), Para(300)) }

\* Documents whose first lines hold a link nested three deep, and brackets and
\* parentheses without their partner.
LinkTexts ==
  { Cat(Lit(<<"[", "[", "[", "x", "]", "(", "/", "a", ".", "m", "d", ")", "]", "(", "/", "b",
              ".", "m", "d", ")", "]", "(", "/", "c", ".", "m", "d", ")", "\n">>), Para(300)),
    Cat(Lit(<<"[", "[", "x", "]", "(", "/", "a", ".", "m", "d", ")", "\n", "x", "]", "(", "/",
              "b", ".", "m", "d", ")", " ", "[", "x", "]", "(", "/", "c", ".", "m", "d", "\n">>),
        Para(300)) }

(***************************************************************************)
(* State of the scraper (scraper/fetcher.py).  A Fetcher object holds      *)
(* _cache_dir and _max_retries; cache_files is the content of the cache    *)
(* directory, one file per url (<<>> when the file does not exist, else    *)
(* <<data>>).  fetch_url, attempt, response and fetch_result are the       *)
(* argument, the locals and the outcome of the running fetch call;         *)
(* get_count counts the calls of session.get made by that call,            *)
(* fetch_calls the calls of fetch, and from_network remembers, per url,    *)
(* the content last returned from a network response.                      *)
(***************************************************************************)
VARIABLES _cache_dir, _max_retries, cache_files, fetch_pc, fetch_url, attempt,
          response, get_count, fetch_result, fetch_calls, from_network

fetcher_vars == <<_cache_dir, _max_retries, cache_files, fetch_pc, fetch_url, attempt,
                  response, get_count, fetch_result, fetch_calls, from_network>>

(***************************************************************************)
(* State of the bulk downloader (scraper/downloader.py).  _downloaded and  *)
(* _lock belong to the ProgressTracker, progress_lines is the content of   *)
(* the progress file, local_files the number of bytes each case file has   *)
(* on disk (-1 when the file does not exist), stats the DownloadStats      *)
(* counters.  Each entry is one call of download_one, run by a worker      *)
(* thread: task_pc is its position, task_attempt its attempt, task_gets    *)
(* the calls of session.get it made and task_result what it returned.      *)
(* run counts the calls of run_download.                                   *)
(***************************************************************************)
VARIABLES _downloaded, _lock, progress_lines, local_files, stats,
          task_pc, task_attempt, task_gets, task_result, run

downloader_vars == <<_downloaded, _lock, progress_lines, local_files, stats,
                     task_pc, task_attempt, task_gets, task_result, run>>

scraper_vars == <<fetcher_vars, downloader_vars>>

\* No download runs while documents are chunked or pages are fetched.
NoDownloader ==
  /\ _downloaded = {} /\ _lock = "" /\ progress_lines = {} /\ local_files = <<>>
  /\ stats = <<>> /\ task_pc = <<>> /\ task_attempt = <<>> /\ task_gets = <<>>
  /\ task_result = <<>> /\ run = 0

\* No Fetcher exists while documents are chunked.
NoFetcher ==
  /\ _cache_dir = FALSE /\ _max_retries = 0 /\ cache_files = <<>>
  /\ fetch_pc = "none" /\ fetch_url = "" /\ attempt = 0 /\ response = <<>>
  /\ get_count = 0 /\ fetch_result = <<>> /\ fetch_calls = 0 /\ from_network = <<>>

(***************************************************************************)
(* chunk_document(text, doc_id) step by step, then extract_document on the *)
(* same input.  The variables are the locals of chunk_document; record is  *)
(* the value extract_document returns.                                     *)
(***************************************************************************)
VARIABLES text, doc_id, pc, title, court, year, court_level, subcourt, cross_refs,
          jurisdiction, cleaned_text, raw_chunks, header, chunks, record

vars == <<text, doc_id, pc, title, court, year, court_level, subcourt, cross_refs,
          jurisdiction, cleaned_text, raw_chunks, header, chunks, record>>

Init ==
  /\ \/ text \in Texts \cup LineLimitTexts \cup SectionTexts \cup RuleTexts \cup LinkTexts
                 \cup LongTexts \cup TitleTexts \cup RecordTexts \cup MergeTexts
        /\ doc_id \in TextDocIds
     \/ text \in PathTexts /\ doc_id \in DocIds
  /\ pc = "check"
  /\ title = <<>> /\ court = <<>> /\ year = <<>> /\ court_level = ""
  /\ subcourt = <<>> /\ cross_refs = <<>> /\ jurisdiction = <<>>
  /\ cleaned_text = <<>> /\ raw_chunks = <<>> /\ header = <<>>
  /\ chunks = <<>> /\ record = <<>>
  /\ NoFetcher /\ NoDownloader

\* A floor that measures the text without trimming it.
TooShort_Untrimmed(t) == t = <<>> \/ TLen(t) < MIN_TEXT_CHARS

\* if not text or len(text.strip()) < 50
TooShort(t) == t = <<>> \/ TLen(Strip(t)) < MIN_TEXT_CHARS

CheckLength ==
  /\ pc = "check"
  /\ pc' = IF TooShort(text) THEN "done" ELSE "metadata"
  /\ UNCHANGED <<text, doc_id, title, court, year, court_level, subcourt, cross_refs,
                 jurisdiction, cleaned_text, raw_chunks, header, chunks, record>>
  /\ UNCHANGED scraper_vars

ExtractMetadata ==
  /\ pc = "metadata"
  /\ title' = _extract_title(text)
  /\ court' = _detect_court(doc_id)
  /\ year' = _detect_year(doc_id)
  /\ court_level' = _detect_court_level(court')
  /\ subcourt' = _detect_subcourt(doc_id, court')
  /\ cross_refs' = _extract_cross_refs(text)
  /\ jurisdiction' = _extract_jurisdiction(text, doc_id)
  /\ pc' = "clean"
  /\ UNCHANGED <<text, doc_id, cleaned_text, raw_chunks, header, chunks, record>>
  /\ UNCHANGED scraper_vars

CleanText ==
  /\ pc = "clean"
  /\ cleaned_text' = _clean_chunk_text(_strip_references(text))
  /\ pc' = "split"
  /\ UNCHANGED <<text, doc_id, title, court, year, court_level, subcourt, cross_refs,
                 jurisdiction, raw_chunks, header, chunks, record>>
  /\ UNCHANGED scraper_vars

SplitText ==
  /\ pc = "split"
  /\ raw_chunks' \in split_text(cleaned_text)
  /\ pc' = "merge"
  /\ UNCHANGED <<text, doc_id, title, court, year, court_level, subcourt, cross_refs,
                 jurisdiction, cleaned_text, header, chunks, record>>
  /\ UNCHANGED scraper_vars

\* A loop condition with a wider threshold.
TailTooSmall_Wider(raw) == Len(raw) >= 2 /\ TLen(raw[Len(raw)]) < TAIL_MIN_CHARS + 100

\* while len(raw_chunks) >= 2 and len(raw_chunks[-1]) < 500
TailTooSmall(raw) == Len(raw) >= 2 /\ TLen(raw[Len(raw)]) < TAIL_MIN_CHARS

\* A merge that joins the two pieces with nothing between them.
MergedTail_NoSeparator(raw) ==
  Append(SubSeq(raw, 1, Len(raw) - 2), Cat(raw[Len(raw) - 1], raw[Len(raw)]))

\* A merge that puts the last piece in front of its predecessor.
MergedTail_Reversed(raw) ==
  Append(SubSeq(raw, 1, Len(raw) - 2),
         Cat(Cat(raw[Len(raw)], NL2), raw[Len(raw) - 1]))

\* raw_chunks[-2] = raw_chunks[-2] + "\n\n" + raw_chunks[-1]; raw_chunks.pop()
MergedTail(raw) ==
  Append(SubSeq(raw, 1, Len(raw) - 2),
         Cat(Cat(raw[Len(raw) - 1], NL2), raw[Len(raw)]))

MergeTail ==
  /\ pc = "merge"
  /\ TailTooSmall(raw_chunks)
  /\ raw_chunks' = MergedTail(raw_chunks)
  /\ UNCHANGED <<text, doc_id, pc, title, court, year, court_level, subcourt, cross_refs,
                 jurisdiction, cleaned_text, header, chunks, record>>
  /\ UNCHANGED scraper_vars

\* _COURT_DISPLAY_NAME.get(court, court)
CourtDisplay(court_id) ==
  IF \E k \in 1..Len(_COURT_DISPLAY_NAME) : _COURT_DISPLAY_NAME[k].court = court_id
  THEN _COURT_DISPLAY_NAME[CHOOSE k \in 1..Len(_COURT_DISPLAY_NAME) :
                             _COURT_DISPLAY_NAME[k].court = court_id].name
  ELSE court_id

BuildHeader ==
  /\ pc = "merge"
  /\ ~TailTooSmall(raw_chunks)
  /\ header' = _build_chunk_header(CourtDisplay(court), jurisdiction, year, title)
  /\ pc' = "emit"
  /\ UNCHANGED <<text, doc_id, title, court, year, court_level, subcourt, cross_refs,
                 jurisdiction, cleaned_text, raw_chunks, chunks, record>>
  /\ UNCHANGED scraper_vars

\* A Chunk builder that numbers from 1 instead of 0.
MakeChunk_FromOne(i, chunk_text) ==
  [text |-> Cat(Cat(header, NL2), chunk_text),
   doc_id |-> doc_id,
   title |-> title,
   court |-> court,
   year |-> year,
   chunk_index |-> i + 1,
   court_level |-> court_level,
   subcourt |-> subcourt,
   jurisdiction |-> jurisdiction,
   cross_refs |-> cross_refs]

\* The Chunk built for raw_chunks[i] (i counts from 0, as enumerate does).
MakeChunk(i, chunk_text) ==
  [text |-> Cat(Cat(header, NL2), chunk_text),
   doc_id |-> doc_id,
   title |-> title,
   court |-> court,
   year |-> year,
   chunk_index |-> i,
   court_level |-> court_level,
   subcourt |-> subcourt,
   jurisdiction |-> jurisdiction,
   cross_refs |-> cross_refs]

EmitChunk ==
  /\ pc = "emit"
  /\ Len(chunks) < Len(raw_chunks)
  /\ chunks' = Append(chunks, MakeChunk(Len(chunks), raw_chunks[Len(chunks) + 1]))
  /\ UNCHANGED <<text, doc_id, pc, title, court, year, court_level, subcourt, cross_refs,
                 jurisdiction, cleaned_text, raw_chunks, header, record>>
  /\ UNCHANGED scraper_vars

ReturnChunks ==
  /\ pc = "emit"
  /\ Len(chunks) = Len(raw_chunks)
  /\ pc' = "done"
  /\ UNCHANGED <<text, doc_id, title, court, year, court_level, subcourt, cross_refs,
                 jurisdiction, cleaned_text, raw_chunks, header, chunks, record>>
  /\ UNCHANGED scraper_vars

ExtractDocument ==
  /\ pc = "done"
  /\ record' = extract_document(text, doc_id)
  /\ pc' = "end"
  /\ UNCHANGED <<text, doc_id, title, court, year, court_level, subcourt, cross_refs,
                 jurisdiction, cleaned_text, raw_chunks, header, chunks>>
  /\ UNCHANGED scraper_vars

Next ==
  \/ CheckLength
  \/ ExtractMetadata
  \/ CleanText
  \/ SplitText
  \/ MergeTail
  \/ BuildHeader
  \/ EmitChunk
  \/ ReturnChunks
  \/ ExtractDocument

Spec == Init /\ [][Next]_<<vars, scraper_vars>>

(***************************************************************************)
(* scraper/fetcher.py: Fetcher.fetch(url), one session.get per step.       *)
(* Waiting (_rate_limit, the back-off sleeps) changes no state and is not  *)
(* modelled.                                                               *)
(***************************************************************************)
\* Largest max_retries a Fetcher is constructed with.
MaxRetriesBound == 2

\* Number of fetch calls made on one Fetcher.
MaxFetchCalls == 3

Urls == {"u1", "u2"}

\* Response bodies (response.text), as sequences of characters.
Bodies == { <<>>, <<"a", "\n">>, <<"a", "\r", "\n", "b">>, <<"a", "\r", "b">> }

StatusCodes == {200, 404, 500, 503}

\* What session.get does: it raises requests.RequestException or it
\* returns a response.
RequestException == [raised |-> TRUE, status_code |-> 0, text |-> <<>>]

Responses ==
  {RequestException} \cup
  { [raised |-> FALSE, status_code |-> st, text |-> b] : st \in StatusCodes, b \in Bodies }

\* path.write_text(content, encoding="utf-8"): the characters as they are.
write_text(content) == content

\* path.read_text(encoding="utf-8", errors="replace"): the file is opened in
\* text mode with universal newlines, so "\r\n" and "\r" are read as "\n".
RECURSIVE read_text(_)
read_text(data) ==
  IF data = <<>> THEN <<>>
  ELSE IF data[1] = "\r"
       THEN <<"\n">> \o read_text(IF Len(data) >= 2 /\ data[2] = "\n"
                                  THEN SubSeq(data, 3, Len(data))
                                  ELSE Tail(data))
       ELSE <<data[1]>> \o read_text(Tail(data))

\* _read_cache(url): <<content>> when the cache holds the url, else <<>> (None).
_read_cache(url) ==
  IF _cache_dir /\ cache_files[url] # <<>>
  THEN <<read_text(cache_files[url][1])>>
  ELSE <<>>

\* _write_cache(url, content): the cache directory after the call.
_write_cache(url, content) ==
  IF _cache_dir
  THEN [cache_files EXCEPT ![url] = <<write_text(content)>>]
  ELSE cache_files

Returned(content) == [kind |-> "return", content |-> content]

RuntimeError == [kind |-> "RuntimeError", content |-> <<>>]

\* A Fetcher right after construction, with an empty cache directory.
FetcherInit ==
  /\ _cache_dir \in BOOLEAN
  /\ _max_retries \in 0..MaxRetriesBound
  /\ cache_files = [u \in Urls |-> <<>>]
  /\ fetch_pc = "idle" /\ fetch_url = "" /\ attempt = 0 /\ response = <<>>
  /\ get_count = 0 /\ fetch_result = <<>> /\ fetch_calls = 0
  /\ from_network = [u \in Urls |-> <<>>]
  /\ text = <<>> /\ doc_id = <<>> /\ pc = "none"
  /\ title = <<>> /\ court = <<>> /\ year = <<>> /\ court_level = ""
  /\ subcourt = <<>> /\ cross_refs = <<>> /\ jurisdiction = <<>>
  /\ cleaned_text = <<>> /\ raw_chunks = <<>> /\ header = <<>>
  /\ chunks = <<>> /\ record = <<>>
  /\ NoDownloader

\* fetch(url) up to the retry loop: a cached page is returned at once.
FetchCall ==
  /\ fetch_pc = "idle"
  /\ fetch_calls < MaxFetchCalls
  /\ \E url \in Urls :
       /\ fetch_url' = url
       /\ IF _read_cache(url) # <<>>
          THEN /\ fetch_result' = Returned(_read_cache(url)[1])
               /\ fetch_pc' = "idle"
               /\ attempt' = 0
          ELSE /\ fetch_result' = <<>>
               /\ fetch_pc' = "loop"
               /\ attempt' = 1
  /\ fetch_calls' = fetch_calls + 1
  /\ get_count' = 0
  /\ response' = <<>>
  /\ UNCHANGED <<_cache_dir, _max_retries, cache_files, from_network>>
  /\ UNCHANGED <<vars, downloader_vars>>

\* A retry loop that makes one attempt more than max_retries.
Request_OneMore ==
  /\ fetch_pc = "loop"
  /\ attempt <= _max_retries + 1
  /\ \E resp \in Responses :
       /\ response' = resp
       /\ IF resp.raised \/ resp.status_code >= 500
          THEN /\ attempt' = attempt + 1
               /\ UNCHANGED <<fetch_pc, fetch_result, cache_files, from_network>>
          ELSE /\ cache_files' = _write_cache(fetch_url, resp.text)
               /\ fetch_result' = Returned(resp.text)
               /\ from_network' = [from_network EXCEPT ![fetch_url] = <<resp.text>>]
               /\ fetch_pc' = "idle"
               /\ UNCHANGED attempt
  /\ get_count' = get_count + 1
  /\ UNCHANGED <<_cache_dir, _max_retries, fetch_url, fetch_calls>>
  /\ UNCHANGED <<vars, downloader_vars>>

\* One pass of "for attempt in range(1, self._max_retries + 1)": a request,
\* then either the next attempt (5xx or RequestException) or the return.
Request ==
  /\ fetch_pc = "loop"
  /\ attempt <= _max_retries
  /\ \E resp \in Responses :
       /\ response' = resp
       /\ IF resp.raised \/ resp.status_code >= 500
          THEN /\ attempt' = attempt + 1
               /\ UNCHANGED <<fetch_pc, fetch_result, cache_files, from_network>>
          ELSE /\ cache_files' = _write_cache(fetch_url, resp.text)
               /\ fetch_result' = Returned(resp.text)
               /\ from_network' = [from_network EXCEPT ![fetch_url] = <<resp.text>>]
               /\ fetch_pc' = "idle"
               /\ UNCHANGED attempt
  /\ get_count' = get_count + 1
  /\ UNCHANGED <<_cache_dir, _max_retries, fetch_url, fetch_calls>>
  /\ UNCHANGED <<vars, downloader_vars>>

\* The loop is over: raise RuntimeError("Failed to fetch ...").
RaiseRuntimeError ==
  /\ fetch_pc = "loop"
  /\ attempt > _max_retries
  /\ fetch_result' = RuntimeError
  /\ fetch_pc' = "idle"
  /\ UNCHANGED <<_cache_dir, _max_retries, cache_files, fetch_url, attempt, response,
                 get_count, fetch_calls, from_network>>
  /\ UNCHANGED <<vars, downloader_vars>>

FetcherNext ==
  \/ FetchCall
  \/ Request
  \/ RaiseRuntimeError

FetcherSpec == FetcherInit /\ [][FetcherNext]_<<vars, scraper_vars>>

(***************************************************************************)
(* scraper/downloader.py: run_download with its worker threads, one        *)
(* download_one call per entry.  A step of a task is one statement that    *)
(* reads or writes shared state (the tracker, the statistics, the disk,    *)
(* the network); the steps of different tasks interleave freely.  The      *)
(* process can be interrupted at any step and run_download started again.  *)
(* The sleeps change no state and are not modelled.                        *)
(***************************************************************************)
\* The file_path values of the entries (collect_unique_file_paths: unique).
FilePaths == {"/p1.html", "/p2.html"}

\* Entries whose url goes through the CGI gateway ("open.pl" in entry["url"]).
CgiEntries == {"/p1.html"}

\* Worker threads of the executor.
Threads == 2

\* The max_retries argument of run_download.
DownloadRetries == 2

\* Number of bytes of resp.content.
ContentBytes == 2

\* Number of calls of run_download (the first run and the resumed ones).
MaxRuns == 2

\* What session.get does: a status code, or requests.RequestException.
GetOutcomes == {"200", "404", "500", "RequestException"}

NoStats == [downloaded |-> 0, skipped |-> 0, failed |-> 0]

\* The tasks a worker thread is running.
Running == { p \in FilePaths : task_pc[p] \notin {"queued", "returned"} }

\* run_download: ProgressTracker(progress_file) loads the progress file,
\* DownloadStats() starts at zero, every entry is submitted to the executor.
RunStarts ==
  /\ _downloaded' = progress_lines
  /\ _lock' = ""
  /\ stats' = NoStats
  /\ task_pc' = [p \in FilePaths |-> "queued"]
  /\ task_attempt' = [p \in FilePaths |-> 0]
  /\ task_gets' = [p \in FilePaths |-> 0]
  /\ task_result' = [p \in FilePaths |-> "none"]

\* The first run, on an empty output directory and without a progress file.
DownloaderInit ==
  /\ _downloaded = {} /\ _lock = "" /\ progress_lines = {}
  /\ local_files = [p \in FilePaths |-> -1]
  /\ stats = NoStats
  /\ task_pc = [p \in FilePaths |-> "queued"]
  /\ task_attempt = [p \in FilePaths |-> 0]
  /\ task_gets = [p \in FilePaths |-> 0]
  /\ task_result = [p \in FilePaths |-> "none"]
  /\ run = 1
  /\ NoFetcher
  /\ text = <<>> /\ doc_id = <<>> /\ pc = "none"
  /\ title = <<>> /\ court = <<>> /\ year = <<>> /\ court_level = ""
  /\ subcourt = <<>> /\ cross_refs = <<>> /\ jurisdiction = <<>>
  /\ cleaned_text = <<>> /\ raw_chunks = <<>> /\ header = <<>>
  /\ chunks = <<>> /\ record = <<>>

\* The process is interrupted (or has ended) and run_download is called
\* again: memory is lost, the disk and the progress file stay.
Resume ==
  /\ run < MaxRuns
  /\ run' = run + 1
  /\ RunStarts
  /\ UNCHANGED <<progress_lines, local_files>>
  /\ UNCHANGED <<vars, fetcher_vars>>

\* A worker takes an entry: if progress.is_done(file_path):
\* stats.record_skip(); return True.
StartTask ==
  /\ \E p \in FilePaths :
       /\ task_pc[p] = "queued"
       /\ Cardinality(Running) < Threads
       /\ IF p \in _downloaded
          THEN /\ stats' = [stats EXCEPT !.skipped = @ + 1]
               /\ task_result' = [task_result EXCEPT ![p] = "True"]
               /\ task_pc' = [task_pc EXCEPT ![p] = "returned"]
          ELSE /\ task_pc' = [task_pc EXCEPT ![p] = "disk"]
               /\ UNCHANGED <<stats, task_result>>
  /\ UNCHANGED <<_downloaded, _lock, progress_lines, local_files, task_attempt,
                 task_gets, run>>
  /\ UNCHANGED <<vars, fetcher_vars>>

\* if local_path.exists() and local_path.stat().st_size > 0
CheckDisk ==
  /\ \E p \in FilePaths :
       /\ task_pc[p] = "disk"
       /\ IF local_files[p] > 0
          THEN /\ task_pc' = [task_pc EXCEPT ![p] = "mark_found"]
               /\ UNCHANGED task_attempt
          ELSE /\ task_pc' = [task_pc EXCEPT ![p] = "request"]
               /\ task_attempt' = [task_attempt EXCEPT ![p] = 1]
  /\ UNCHANGED <<_downloaded, _lock, progress_lines, local_files, stats,
                 task_gets, task_result, run>>
  /\ UNCHANGED <<vars, fetcher_vars>>

\* The status download_one acts on, and the number of requests made: a 404
\* of the direct url is followed by a request to the CGI gateway.
GetResults(p) ==
  { [status |-> o, gets |-> 1] : o \in GetOutcomes \ {"404"} }
  \cup (IF p \in CgiEntries
        THEN { [status |-> o, gets |-> 2] : o \in GetOutcomes }
        ELSE { [status |-> "404", gets |-> 1] })

\* One pass of "for attempt in range(1, max_retries + 1)" up to the write.
Get ==
  /\ \E p \in FilePaths :
       /\ task_pc[p] = "request"
       /\ task_attempt[p] <= DownloadRetries
       /\ \E r \in GetResults(p) :
            /\ task_gets' = [task_gets EXCEPT ![p] = @ + r.gets]
            /\ CASE r.status = "200" ->
                      /\ task_pc' = [task_pc EXCEPT ![p] = "open"]
                      /\ UNCHANGED <<task_attempt, stats, task_result>>
                 [] r.status \in {"500", "RequestException"} ->
                      /\ task_attempt' = [task_attempt EXCEPT ![p] = @ + 1]
                      /\ UNCHANGED <<task_pc, stats, task_result>>
                 [] r.status = "404" ->
                      /\ stats' = [stats EXCEPT !.failed = @ + 1]
                      /\ task_result' = [task_result EXCEPT ![p] = "False"]
                      /\ task_pc' = [task_pc EXCEPT ![p] = "returned"]
                      /\ UNCHANGED task_attempt
  /\ UNCHANGED <<_downloaded, _lock, progress_lines, local_files, run>>
  /\ UNCHANGED <<vars, fetcher_vars>>

\* stats.record_failure(file_path, "Max retries exceeded"); return False
GiveUp ==
  /\ \E p \in FilePaths :
       /\ task_pc[p] = "request"
       /\ task_attempt[p] > DownloadRetries
       /\ stats' = [stats EXCEPT !.failed = @ + 1]
       /\ task_result' = [task_result EXCEPT ![p] = "False"]
       /\ task_pc' = [task_pc EXCEPT ![p] = "returned"]
  /\ UNCHANGED <<_downloaded, _lock, progress_lines, local_files, task_attempt,
                 task_gets, run>>
  /\ UNCHANGED <<vars, fetcher_vars>>

\* local_path.write_bytes(content), first half: open(mode="wb") creates the
\* file, or empties the one that is there.
OpenFile ==
  /\ \E p \in FilePaths :
       /\ task_pc[p] = "open"
       /\ local_files' = [local_files EXCEPT ![p] = 0]
       /\ task_pc' = [task_pc EXCEPT ![p] = "write"]
  /\ UNCHANGED <<_downloaded, _lock, progress_lines, stats, task_attempt,
                 task_gets, task_result, run>>
  /\ UNCHANGED <<vars, fetcher_vars>>

\* local_path.write_bytes(content), second half: the bytes reach the file
\* one after the other, then the call returns.
WriteBytes ==
  /\ \E p \in FilePaths :
       /\ task_pc[p] = "write"
       /\ IF local_files[p] < ContentBytes
          THEN /\ local_files' = [local_files EXCEPT ![p] = @ + 1]
               /\ UNCHANGED task_pc
          ELSE /\ task_pc' = [task_pc EXCEPT ![p] = "mark_saved"]
               /\ UNCHANGED local_files
  /\ UNCHANGED <<_downloaded, _lock, progress_lines, stats, task_attempt,
                 task_gets, task_result, run>>
  /\ UNCHANGED <<vars, fetcher_vars>>

\* The write raises OSError (disk full, ...): download_one catches only
\* requests.RequestException, so the call ends with the exception.
WriteFails ==
  /\ \E p \in FilePaths :
       /\ task_pc[p] = "write"
       /\ local_files[p] < ContentBytes
       /\ task_result' = [task_result EXCEPT ![p] = "OSError"]
       /\ task_pc' = [task_pc EXCEPT ![p] = "returned"]
  /\ UNCHANGED <<_downloaded, _lock, progress_lines, local_files, stats,
                 task_attempt, task_gets, run>>
  /\ UNCHANGED <<vars, fetcher_vars>>

\* progress.mark_done(file_path), first half:
\* with self._lock: self._downloaded.add(file_path)
MarkDoneAdd ==
  /\ \E p \in FilePaths :
       /\ task_pc[p] \in {"mark_found", "mark_saved"}
       /\ _lock = ""
       /\ _lock' = p
       /\ _downloaded' = _downloaded \cup {p}
       /\ task_pc' = [task_pc EXCEPT ![p] = IF @ = "mark_saved" THEN "append_saved"
                                                               ELSE "append_found"]
  /\ UNCHANGED <<progress_lines, local_files, stats, task_attempt, task_gets,
                 task_result, run>>
  /\ UNCHANGED <<vars, fetcher_vars>>

\* progress.mark_done(file_path), second half: f.write(file_path + "\n"),
\* then the lock is released.
MarkDoneAppend ==
  /\ \E p \in FilePaths :
       /\ task_pc[p] \in {"append_found", "append_saved"}
       /\ _lock = p
       /\ progress_lines' = progress_lines \cup {p}
       /\ _lock' = ""
       /\ task_pc' = [task_pc EXCEPT ![p] = IF @ = "append_saved" THEN "count_saved"
                                                                 ELSE "count_found"]
  /\ UNCHANGED <<_downloaded, local_files, stats, task_attempt, task_gets,
                 task_result, run>>
  /\ UNCHANGED <<vars, fetcher_vars>>

\* stats.record_skip() after the disk check, or stats.record_download(...)
\* after the write; return True.
RecordAndReturn ==
  /\ \E p \in FilePaths :
       /\ task_pc[p] \in {"count_found", "count_saved"}
       /\ stats' = IF task_pc[p] = "count_found"
                   THEN [stats EXCEPT !.skipped = @ + 1]
                   ELSE [stats EXCEPT !.downloaded = @ + 1]
       /\ task_result' = [task_result EXCEPT ![p] = "True"]
       /\ task_pc' = [task_pc EXCEPT ![p] = "returned"]
  /\ UNCHANGED <<_downloaded, _lock, progress_lines, local_files, task_attempt,
                 task_gets, run>>
  /\ UNCHANGED <<vars, fetcher_vars>>

DownloaderNext ==
  \/ Resume
  \/ StartTask
  \/ CheckDisk
  \/ Get
  \/ GiveUp
  \/ OpenFile
  \/ WriteBytes
  \/ WriteFails
  \/ MarkDoneAdd
  \/ MarkDoneAppend
  \/ RecordAndReturn

DownloaderSpec == DownloaderInit /\ [][DownloaderNext]_<<vars, scraper_vars>>

(***************************************************************************)
(* Properties of chunk_document and extract_document.                      *)
(***************************************************************************)

\* The metadata fields every chunk of one document carries.
SharedFields(c) ==
  <<c.doc_id, c.title, c.court, c.year, c.court_level, c.subcourt, c.jurisdiction,
    c.cross_refs>>

\* C1: the chunks of one document are numbered 0, 1, ..., n-1 in list order,
\* the returned list has one chunk per piece, and all chunks carry the same
\* doc_id, title, court, year, court_level, subcourt, jurisdiction and
\* cross_refs.
C1_IndexAndSharedMetadata ==
  /\ \A k \in 1..Len(chunks) :
        /\ chunks[k].chunk_index = k - 1
        /\ SharedFields(chunks[k]) = SharedFields(chunks[1])
        /\ SharedFields(chunks[k]) =
             <<doc_id, title, court, year, court_level, subcourt, jurisdiction, cross_refs>>
  /\ pc \in {"done", "end"} => Len(chunks) = Len(raw_chunks)

\* A document returned with at least three chunks.
C1_Witness == pc = "done" /\ Len(chunks) >= 3

\* The number of non-whitespace characters of a text.
NonWhitespace(t) == TLen(Remove(t, Whitespace))

\* The length of a text once leading and trailing whitespace is trimmed.
TrimmedLength(t) == TLen(Strip(t))

\* chunk_document has returned no chunk, and extract_document has returned None.
NothingReturned ==
  /\ pc \in {"done", "end"} => chunks = <<>>
  /\ pc = "end" => record = <<>>

C3_NoMarkdownLink == \A k \in 1..Len(chunks) : ~HasLink(chunks[k].text)

\* A text holds the two-asterisk bold marker.
HasBold(t) == \E i \in 1..Len(t) : t[i].c = "*" /\ t[i].n >= 2

\* A text holds a line that starts with ## followed by a whitespace character.
HasHeadingLine(t) ==
  \E i \in 1..Len(t) :
    /\ i + 2 <= Len(t)
    /\ i = 1 \/ t[i - 1].c = "\n"
    /\ t[i].c = "#" /\ t[i + 1].c = "#" /\ t[i + 2].c \in Whitespace

\* A text holds a character of the C1 control range.
HasC1(t) == \E i \in 1..Len(t) : t[i].c = "c1"

\* C4: no chunk text contains the substring **, a line that starts with ##
\* followed by whitespace, or a character of the C1 control range
\* U+0080..U+009F.
C4_NoMarkdownArtifacts ==
  \A k \in 1..Len(chunks) :
    /\ ~HasBold(chunks[k].text)
    /\ ~HasHeadingLine(chunks[k].text)
    /\ ~HasC1(chunks[k].text)

\* A chunk has been produced from a text that holds bold markers, a heading
\* marker and a C1 character, in its title line or jurisdiction line and in
\* its body.
C4_Witness ==
  /\ pc = "done" /\ chunks # <<>>
  /\ HasBold(text) /\ HasHeadingLine(text)
  /\ HasC1(_strip_references(text))

\* C5: no chunk text contains the references-section marker token: the
\* references section is removed before cleaning and splitting and never leaks
\* into a chunk or its header.
C5_NoReferencesMarker == \A k \in 1..Len(chunks) : ~Contains(chunks[k].text, REFS_MARKER)

\* The texts of a non-empty list, joined by ' | '.
RECURSIVE JoinBar(_)
JoinBar(parts) ==
  IF Len(parts) = 1 THEN parts[1]
  ELSE Cat(Cat(JoinBar(SubSeq(parts, 1, Len(parts) - 1)), HEADER_SEP), parts[Len(parts)])

NonEmptyText(t) == t # <<>>

\* The header the document's metadata calls for.
ExpectedHeader ==
  JoinBar(SelectSeq(<<Cat(HEADER_COURT_LABEL, CourtDisplay(court)),
                      jurisdiction,
                      IF year = <<>> THEN <<>> ELSE Cat(HEADER_YEAR_LABEL, year),
                      Take(title, HEADER_TITLE_CHARS)>>,
                    NonEmptyText))

\* C6: every chunk's text is header + blank line + chunk body; the header is a
\* single line, the same for all chunks of the document: 'Δικαστήριο: ' and
\* the court display name (the court id when there is none), then, each only
\* when non-empty and in this order, the jurisdiction, 'Έτος: ' + year and the
\* first 120 characters of the title, joined by ' | '.
C6_HeaderThenBody ==
  chunks # <<>> =>
    /\ header = ExpectedHeader
    /\ \A i \in 1..Len(header) : header[i].c # "\n"
    /\ \A k \in 1..Len(chunks) :
          chunks[k].text = header \o <<[c |-> "\n", n |-> 2]>> \o raw_chunks[k]

\* A document returned in several chunks whose header holds a jurisdiction, a
\* year and a title cut at 120 characters.
C6_Witness ==
  /\ pc = "done" /\ Len(chunks) >= 2
  /\ jurisdiction # <<>> /\ year # <<>> /\ TLen(title) > HEADER_TITLE_CHARS

\* The last piece of a list of two or more is under 500 characters long.
SmallTail(raw) == Len(raw) >= 2 /\ TLen(raw[Len(raw)]) < TAIL_MIN_CHARS

\* One step taken while chunk_document is at its tail-merge loop.  Either the
\* last piece is small and it is joined to its predecessor with a blank line,
\* which makes the list one shorter (so the loop cannot run for ever), or the
\* loop is left with the list untouched, and the list then has at most one
\* piece or a last piece of 500 characters or more.
C7_LoopStep ==
  pc = "merge" =>
    \/ /\ SmallTail(raw_chunks)
       /\ pc' = "merge"
       /\ Len(raw_chunks') = Len(raw_chunks) - 1 /\ Len(raw_chunks') >= 1
       /\ raw_chunks' =
            SubSeq(raw_chunks, 1, Len(raw_chunks) - 2)
            \o <<raw_chunks[Len(raw_chunks) - 1] \o <<[c |-> "\n", n |-> 2]>>
                 \o raw_chunks[Len(raw_chunks)]>>
    \/ /\ ~SmallTail(raw_chunks)
       /\ pc' = "emit"
       /\ raw_chunks' = raw_chunks
       /\ \/ Len(raw_chunks') <= 1
          \/ TLen(raw_chunks'[Len(raw_chunks')]) >= TAIL_MIN_CHARS

\* C7: the tail-merge loop merges the last body into its predecessor with a
\* blank-line separator while at least two bodies remain and the last is under
\* 500 characters; it always terminates; after it the list has at most one
\* element or its last body has at least 500 characters.
C7_TailMerge == [][C7_LoopStep]_vars

\* The loop has been left with two or more pieces, the last of them a merged
\* one: it holds a blank line and is longer than the splitter's chunk size.
C7_Witness ==
  /\ pc = "emit" /\ Len(raw_chunks) >= 2
  /\ TLen(raw_chunks[Len(raw_chunks)]) > CHUNK_SIZE_CHARS
  /\ \E i \in 1..Len(raw_chunks[Len(raw_chunks)]) :
        raw_chunks[Len(raw_chunks)][i] = [c |-> "\n", n |-> 2]

SpecificPrefixFirst ==
  \A i, j \in 1..Len(_PATH_TO_COURT) :
    i # j /\ Contains(_PATH_TO_COURT[i].prefix, _PATH_TO_COURT[j].prefix) => i < j

\* Table entry i is placed before table entry j.
PrefixBefore(a, b) ==
  \E i, j \in 1..Len(_PATH_TO_COURT) :
    i < j /\ _PATH_TO_COURT[i].prefix = a /\ _PATH_TO_COURT[j].prefix = b

supremeAdministrative ==
  Lit(<<"s", "u", "p", "r", "e", "m", "e", "A", "d", "m", "i", "n", "i", "s", "t", "r", "a", "t", "i", "v", "e">>)
supreme == Lit(<<"s", "u", "p", "r", "e", "m", "e">>)
administrative == Lit(<<"a", "d", "m", "i", "n", "i", "s", "t", "r", "a", "t", "i", "v", "e">>)
administrativeIP == Lit(<<"a", "d", "m", "i", "n", "i", "s", "t", "r", "a", "t", "i", "v", "e", "I", "P">>)
administrativeCourtOfAppeal ==
  Lit(<<"a", "d", "m", "i", "n", "i", "s", "t", "r", "a", "t", "i", "v", "e", "C", "o", "u", "r", "t", "O", "f", "A", "p", "p", "e", "a", "l">>)
SupremeAdministrativeDoc ==
  Lit(<<"s", "u", "p", "r", "e", "m", "e", "A", "d", "m", "i", "n", "i", "s", "t", "r", "a", "t", "i", "v", "e", "/", "2", "0", "2", "4", "/", "y", ".", "m", "d">>)
SupremeDoc == Lit(<<"s", "u", "p", "r", "e", "m", "e", "/", "2", "0", "2", "4", "/", "y", ".", "m", "d">>)

NamedPrefixesInOrder ==
  /\ PrefixBefore(supremeAdministrative, supreme)
  /\ PrefixBefore(administrativeIP, administrative)
  /\ PrefixBefore(administrativeCourtOfAppeal, administrative)

\* C9: in the path-to-court table every prefix that contains another table
\* prefix as a substring is checked before that shorter prefix
\* (supremeAdministrative before supreme; administrativeIP and
\* administrativeCourtOfAppeal before administrative), so the doc_ids
\* supremeAdministrative/2024/y.md and supreme/2024/y.md classify to the
\* distinct court ids supremeAdministrative and supreme.
C9_SpecificPrefixFirst ==
  /\ SpecificPrefixFirst
  /\ NamedPrefixesInOrder
  /\ pc \notin {"check", "metadata"} /\ TrimmedLength(text) >= MIN_TEXT_CHARS =>
        /\ doc_id = SupremeAdministrativeDoc => court = supremeAdministrative
        /\ doc_id = SupremeDoc => court = supreme

\* chunk_document has returned chunks for supremeAdministrative/2024/y.md.
C9_Witness ==
  /\ pc = "done" /\ chunks # <<>>
  /\ doc_id = SupremeAdministrativeDoc
  /\ chunks[1].court = supremeAdministrative

\* The doc_id names a file under the court directory dir.
Under(dir) == StartsWith(doc_id, Cat(dir, Slash))

\* C10: for every doc_id under one of the court directories of the test
\* matrix, chunk_document reports the court id and court_level of that
\* directory's row, whatever the remaining path segments, the file name and
\* the document text are; in particular every document under courtOfAppeal has
\* court courtOfAppeal and court_level appeal.
C10_MatrixCourtAndLevel ==
  \A k \in 1..Len(chunks) :
    \A row \in 1..Len(COURT_MATRIX) :
      Under(COURT_MATRIX[row].dir) =>
        /\ chunks[k].court = COURT_MATRIX[row].court
        /\ chunks[k].court_level = COURT_MATRIX[row].level

\* chunk_document has got past the floor and has just set the document's
\* metadata, which no later step changes.
MetadataSet == pc = "clean"

\* Some prefix of the path-to-court table occurs in the doc_id.
TablePrefixOccurs ==
  \E k \in 1..Len(_PATH_TO_COURT) : Contains(doc_id, _PATH_TO_COURT[k].prefix)

\* The doc_id up to its first '/', for a relative doc_id.
FirstSegment ==
  IF \E i \in 1..Len(doc_id) : doc_id[i].c = "/"
  THEN SubSeq(doc_id, 1, (CHOOSE i \in 1..Len(doc_id) :
                            doc_id[i].c = "/" /\ \A j \in 1..(i - 1) : doc_id[j].c # "/") - 1)
  ELSE doc_id

CourtLevels == {"supreme", "appeal", "first_instance", "administrative", "foreign", "other"}

\* C11: when no prefix of the path-to-court table occurs in the path, the
\* court id is the first path segment, or 'unknown' when the path has no
\* segments; the court_level is the level table's value for the court id and
\* 'other' for a court id not in the table, so it is always one of supreme,
\* appeal, first_instance, administrative, foreign, other.
C11_FallbackCourtAndLevel ==
  MetadataSet =>
    /\ ~TablePrefixOccurs =>
          court = IF doc_id = <<>> THEN unknown ELSE FirstSegment
    /\ \A k \in 1..Len(_COURT_LEVEL) :
          _COURT_LEVEL[k].court = court => court_level = _COURT_LEVEL[k].level
    /\ (\A k \in 1..Len(_COURT_LEVEL) : _COURT_LEVEL[k].court # court) =>
          court_level = "other"
    /\ court_level \in CourtLevels

\* A document under a directory that is in neither table has been chunked.
C11_Witness ==
  /\ pc = "done" /\ chunks # <<>>
  /\ ~TablePrefixOccurs /\ doc_id # <<>>
  /\ court = FirstSegment
  /\ chunks[1].court_level = "other"

\* The second '/'-separated segment of the doc_id, or the empty text.
SecondSegment ==
  IF Len(SplitOn(doc_id, "/")) >= 2 THEN SplitOn(doc_id, "/")[2] ELSE <<>>

SubcourtCodes ==
  { Lit(<<"p", "o", "l">>), Lit(<<"p", "o", "i", "n">>), Lit(<<"o", "i", "k">>),
    Lit(<<"e", "n", "o", "i", "k">>), Lit(<<"e", "r", "g">>) }

\* C12: the subcourt is non-empty only if the court id is 'apofaseised'; it
\* then equals the second '/'-separated segment of doc_id and is one of pol,
\* poin, oik, enoik, erg; in every other case the subcourt is the empty string.
C12_SubcourtOnlyFirstInstance ==
  MetadataSet =>
    IF court = apofaseised /\ SecondSegment \in SubcourtCodes
    THEN subcourt = SecondSegment
    ELSE subcourt = <<>>

\* A first-instance document with a subcourt has been chunked.
C12_Witness ==
  /\ pc = "done" /\ chunks # <<>>
  /\ chunks[1].court = apofaseised
  /\ chunks[1].subcourt \in SubcourtCodes

\* The lines among the first 30 after the first DECISION TEXT marker that
\* hold the word ΔΙΚΑΙΟΔΟΣΙΑ, in order.
MarkedLines(t) ==
  IF ~MarkerSearch(t, DECISION_MARKER, FALSE).found THEN <<>>
  ELSE Lines(MarkerSearch(t, DECISION_MARKER, FALSE).after)

FirstLines(lines) ==
  SelectSeq([i \in 1..Len(lines) |-> IF i <= JURISDICTION_LINES THEN lines[i] ELSE <<>>],
            LAMBDA line : Contains(line, JURISDICTION_WORD))

BodyJurisdictionLines(t) == FirstLines(MarkedLines(t))

\* The subcourt codes and their jurisdiction labels.
SubcourtLabels ==
  <<[code |-> Lit(<<"p", "o", "l">>),
     label |-> Lit(<<"Π", "Ο", "Λ", "Ι", "Τ", "Ι", "Κ", "Η", " ", "Δ", "Ι", "Κ", "Α", "Ι", "Ο", "Δ", "Ο", "Σ", "Ι", "Α">>)],
    [code |-> Lit(<<"p", "o", "i", "n">>),
     label |-> Lit(<<"Π", "Ο", "Ι", "Ν", "Ι", "Κ", "Η", " ", "Δ", "Ι", "Κ", "Α", "Ι", "Ο", "Δ", "Ο", "Σ", "Ι", "Α">>)],
    [code |-> Lit(<<"o", "i", "k">>),
     label |-> Lit(<<"Ο", "Ι", "Κ", "Ο", "Γ", "Ε", "Ν", "Ε", "Ι", "Α", "Κ", "Η", " ", "Δ", "Ι", "Κ", "Α", "Ι", "Ο", "Δ", "Ο", "Σ", "Ι", "Α">>)],
    [code |-> Lit(<<"e", "n", "o", "i", "k">>),
     label |-> Lit(<<"Δ", "Ι", "Κ", "Α", "Ι", "Ο", "Δ", "Ο", "Σ", "Ι", "Α", " ", "Ε", "Ν", "Ο", "Ι", "Κ", "Ι", "Ο", "Σ", "Τ", "Α", "Σ", "Ι", "Ο", "Υ">>)],
    [code |-> Lit(<<"e", "r", "g">>),
     label |-> Lit(<<"Ε", "Ρ", "Γ", "Α", "Τ", "Ι", "Κ", "Η", " ", "Δ", "Ι", "Κ", "Α", "Ι", "Ο", "Δ", "Ο", "Σ", "Ι", "Α">>)]>>

\* The doc_id holds seg as a path segment between two slashes.
HasSegment(seg) == Contains(doc_id, Cat(Cat(Slash, seg), Slash))

FallbackLabels == { _JURISDICTION_FALLBACK[k].value : k \in 1..Len(_JURISDICTION_FALLBACK) }

FallbackKeyInPath ==
  \E k \in 1..Len(_JURISDICTION_FALLBACK) : HasSegment(_JURISDICTION_FALLBACK[k].key)

JurisdictionFrom(found) ==
  IF found # <<>> THEN chunks[1].jurisdiction = _clean_markdown(found[1])
  ELSE IF FallbackKeyInPath THEN chunks[1].jurisdiction \in FallbackLabels
  ELSE chunks[1].jurisdiction = <<>>

C14_BodyLineBeforePath ==
  pc = "done" /\ chunks # <<>> => JurisdictionFrom(BodyJurisdictionLines(text))

C14_Witness ==
  /\ pc = "done" /\ chunks # <<>>
  /\ BodyJurisdictionLines(text) # <<>>
  /\ FallbackKeyInPath
  /\ chunks[1].jurisdiction = _clean_markdown(BodyJurisdictionLines(text)[1])
  /\ chunks[1].jurisdiction \notin FallbackLabels
  /\ chunks[1].jurisdiction # BodyJurisdictionLines(text)[1]

\* C15: cross_refs lists the targets ending in .md of the Markdown links of the
\* raw text, each once, in order of first occurrence; targets that occur only
\* inside the stripped references section are among them.
TargetAt(t, i) ==
  IF i + 1 > Len(t) \/ t[i].c # "]" THEN <<>>
  ELSE IF t[i + 1].c # "(" \/ FirstIdx(t, i + 2, ")") < i + 5 THEN <<>>
  ELSE IF SubSeq(t, FirstIdx(t, i + 2, ")") - 3, FirstIdx(t, i + 2, ")") - 1)
          # Lit(<<".", "m", "d">>) THEN <<>>
  ELSE SubSeq(t, i + 2, FirstIdx(t, i + 2, ")") - 1)

Targets(t) == { TargetAt(t, i) : i \in 1..Len(t) } \ {<<>>}

FirstOccurrence(t, target) ==
  CHOOSE i \in 1..Len(t) : TargetAt(t, i) = target /\ \A j \in 1..(i - 1) : TargetAt(t, j) # target

OrderedTargets(refs, t) ==
  /\ { refs[j] : j \in 1..Len(refs) } = Targets(t)
  /\ \A j \in 1..Len(refs) : \A k \in (j + 1)..Len(refs) :
        /\ refs[j] # refs[k]
        /\ FirstOccurrence(t, refs[j]) < FirstOccurrence(t, refs[k])

C15_CrossRefsOfRawText ==
  pc = "done" /\ chunks # <<>> => OrderedTargets(chunks[1].cross_refs, text)

C15_Witness ==
  /\ pc = "done" /\ chunks # <<>>
  /\ Len(chunks[1].cross_refs) = 3
  /\ Cardinality({ i \in 1..Len(text) : TargetAt(text, i) # <<>> }) > 3
  /\ \E j \in 1..Len(chunks[1].cross_refs) :
        chunks[1].cross_refs[j] \notin Targets(_strip_references(text))

\* C16: when the text holds a REFERENCES marker and a DECISION TEXT marker
\* occurs after it, _strip_references returns the text before the REFERENCES
\* marker, a blank line and the text after that DECISION TEXT marker; when no
\* DECISION TEXT marker follows the REFERENCES marker, everything from the
\* REFERENCES marker onward is removed.  Both sides are compared up to
\* surrounding whitespace.
AfterRefsMarker(t) == MarkerSearch(t, REFS_MARKER, FALSE).after

SectionRemoved(before, rest) ==
  IF rest.found THEN Cat(Cat(RStrip(before), NL2), LStrip(rest.after))
  ELSE RStrip(before)

C16_ReferencesSectionRemoved ==
  pc = "split" /\ Contains(text, REFS_MARKER) =>
    Strip(_strip_references(text))
      = Strip(SectionRemoved(MarkerSearch(text, REFS_MARKER, FALSE).before,
                             MarkerSearch(AfterRefsMarker(text), DECISION_MARKER, TRUE)))

\* C17: without a REFERENCES marker _strip_references returns the text
\* unchanged when it holds no DECISION TEXT marker, and otherwise removes one
\* occurrence of the marker, with up to four asterisks on either side and an
\* optional colon, keeping every character before and after it in place.
MarkerOccurrence(pre, post, colon) ==
  Cat(Cat(Stars(pre), DECISION_MARKER),
      Cat(Stars(post), IF colon THEN Lit(<<":">>) ELSE <<>>))

CutAt(t, n, m) ==
  IF n >= 0 /\ Take(Drop(t, n), TLen(m)) = m
  THEN {Cat(Take(t, n), Drop(t, n + TLen(m)))}
  ELSE {}

CutOfLength(t, result, at, cut) ==
  \E pre, post \in 0..MARKER_MAX_STARS : \E colon \in BOOLEAN :
    /\ pre + TLen(DECISION_MARKER) + post + (IF colon THEN 1 ELSE 0) = cut
    /\ result \in CutAt(t, at - pre, MarkerOccurrence(pre, post, colon))

OnlyMarkerRemoved(t, result) ==
  IF ~Contains(t, DECISION_MARKER) THEN result = t
  ELSE \E i \in 1..Len(t) :
         /\ MatchAt(t, DECISION_MARKER, i)
         /\ CutOfLength(t, result, RunsLen(t, 1, i - 1), TLen(t) - TLen(result))

C17_OnlyDecisionMarkerRemoved ==
  pc = "split" /\ ~Contains(text, REFS_MARKER) =>
    OnlyMarkerRemoved(text, _strip_references(text))

C17_Witness ==
  /\ pc = "split" /\ ~Contains(text, REFS_MARKER)
  /\ Contains(text, DECISION_MARKER)
  /\ ~StartsWith(text, Stars(2))
  /\ TLen(_strip_references(text)) = TLen(text) - TLen(MarkerOccurrence(2, 2, TRUE))
  /\ Contains(_strip_references(text), Lit(<<"\n", "x">>))

\* C18: the body-cleaning function is idempotent: cleaning the cleaned text
\* once more gives the cleaned text.
C18_CleanIdempotent == pc = "split" => _clean_chunk_text(cleaned_text) = cleaned_text

\* C19: the link-stripping loop of the body cleaning terminates on every
\* input, unmatched brackets and nested links included: every pass it makes
\* shortens the text, so it makes at most as many passes as the text has
\* characters; the text it leaves holds no match of the link pattern.
LoopInput == Remove(_strip_references(text), {"*", "#"})

RECURSIVE EveryPassShortens(_, _)
EveryPassShortens(t, passes) ==
  IF ~HasLink(t) THEN TRUE
  ELSE /\ passes > 0
       /\ TLen(SubLinks(t)) < TLen(t)
       /\ EveryPassShortens(SubLinks(t), passes - 1)

LoopEnds(t) == EveryPassShortens(t, TLen(t)) /\ ~HasLink(StripLinks(t))

C19_LinkLoopTerminates == pc = "split" => LoopEnds(LoopInput)

C19_Witness ==
  /\ pc = "split"
  /\ HasLink(SubLinks(SubLinks(LoopInput)))
  /\ ~HasLink(StripLinks(LoopInput))

C19_UnmatchedWitness ==
  /\ pc = "split"
  /\ HasLink(SubLinks(LoopInput))
  /\ \E i \in 1..Len(StripLinks(LoopInput)) : StripLinks(LoopInput)[i].c = "["

\* C21: the title is what follows '# ' on the first line that, trimmed, starts
\* with it; without such a line it is the first non-empty line that does not
\* start with '---', cut to 200 characters; either is passed through the
\* title cleaning, so that a first line **Τίτλος Υπόθεσης** gives the title
\* Τίτλος Υπόθεσης, and the title holds no '*', no '#' and no C1 character.
TrimmedLines(t) == [i \in 1..Len(Lines(t)) |-> Strip(Lines(t)[i])]

Least(S) == CHOOSE i \in S : \A j \in S : i <= j

H1Lines(lines) == { i \in 1..Len(lines) : StartsWith(lines[i], Lit(<<"#", " ">>)) }

TitleCandidates(lines) ==
  { i \in 1..Len(lines) :
      lines[i] # <<>> /\ ~StartsWith(lines[i], Lit(<<"-", "-", "-">>)) }

TitleOf(lines) ==
  IF H1Lines(lines) # {} THEN _clean_markdown(Drop(lines[Least(H1Lines(lines))], 2))
  ELSE IF TitleCandidates(lines) # {}
  THEN _clean_markdown(Take(lines[Least(TitleCandidates(lines))], TITLE_FALLBACK_CHARS))
  ELSE <<>>

C21_TitleFromHeadingOrFirstLine ==
  pc = "clean" =>
    /\ title = TitleOf(TrimmedLines(text))
    /\ \A i \in 1..Len(title) : title[i].c \notin {"*", "#", "c1"}

C21_Witness ==
  /\ pc = "done" /\ chunks # <<>>
  /\ StartsWith(text, Cat(Cat(Stars(2), BoldTitle), Stars(2)))
  /\ chunks[1].title = BoldTitle

C21_CutWitness ==
  /\ pc = "clean"
  /\ H1Lines(TrimmedLines(text)) = {}
  /\ title = X(TITLE_FALLBACK_CHARS)

C21_HeadingWitness ==
  /\ pc = "clean"
  /\ H1Lines(TrimmedLines(text)) # {}
  /\ 1 \notin H1Lines(TrimmedLines(text))
  /\ title # <<>>

\* C22: the body that extract_document embeds is what follows the LEGAL
\* ANALYSIS marker when the cleaned document has one; otherwise, when the
\* document has a DECISION TEXT marker, what follows that marker and nothing
\* that precedes it; otherwise the whole cleaned text; ':', '*' and
\* whitespace right after the marker are skipped.
AfterDecisionMarker(t) == MarkerSearch(t, DECISION_MARKER, TRUE).after

BodyAfterMarker(t, cleaned) ==
  IF Contains(cleaned, LEGAL_ANALYSIS_MARKER)
  THEN SkipPunctuation(After(cleaned, LEGAL_ANALYSIS_MARKER))
  ELSE IF Contains(t, DECISION_MARKER)
  THEN SkipPunctuation(_clean_chunk_text(_strip_references(AfterDecisionMarker(t))))
  ELSE cleaned

C22_BodyAfterMarker ==
  pc = "end" /\ ~DocTooShort(text) =>
    _extract_body_for_embedding(text) = BodyAfterMarker(text, cleaned_text)

\* C23: the content of every DocumentRecord has at most 3500 characters: it is
\* the title, the optional '[Subject: ...]' and the body joined by blank lines
\* when that text has at most 3500 characters, and otherwise a prefix of that
\* text followed, on a new line, by the truncation marker '[...truncated]'.
RECURSIVE JoinBlank(_)
JoinBlank(parts) ==
  IF Len(parts) = 1 THEN parts[1]
  ELSE Cat(Cat(JoinBlank(SubSeq(parts, 1, Len(parts) - 1)), NL2), parts[Len(parts)])

Bracketed(subject) ==
  IF subject = <<>> THEN <<>> ELSE Cat(Cat(SUBJECT_OPEN, subject), Lit(<<"]">>))

JoinedContent(ttl, subject, body) ==
  JoinBlank(SelectSeq(<<ttl, Bracketed(subject)>>, NonEmptyText) \o <<body>>)

WithinCap(content, joined) ==
  /\ TLen(content) <= MAX_CONTENT_CHARS
  /\ IF TLen(joined) <= MAX_CONTENT_CHARS THEN content = joined
     ELSE /\ TLen(content) - TLen(TRUNCATION_MARKER) > 0
          /\ content = Cat(Take(joined, TLen(content) - TLen(TRUNCATION_MARKER)),
                           TRUNCATION_MARKER)

C23_ContentCap ==
  pc = "end" /\ record # <<>> =>
    WithinCap(record[1].content,
              JoinedContent(_extract_title(text), _extract_subject(text),
                            _extract_body_for_embedding(text)))

C23_Witness ==
  /\ pc = "end" /\ record # <<>>
  /\ Contains(record[1].content, Cat(Cat(SUBJECT_OPEN, X(5)), Lit(<<"]">>)))
  /\ Contains(record[1].content, TRUNCATION_MARKER)
  /\ TLen(record[1].content) > MAX_CONTENT_CHARS - TRUNCATION_MARGIN

C23_ShortWitness ==
  /\ pc = "end" /\ record # <<>>
  /\ Contains(record[1].content, SUBJECT_OPEN)
  /\ TLen(record[1].content) < MAX_CONTENT_CHARS - TRUNCATION_MARGIN

\* C24: extract_document returns None whenever the extracted body is empty
\* once trimmed; for every text that passes the 50-character floor and has a
\* non-empty body it returns a record, and the record's content is not empty.
RecordOrNone(body) ==
  /\ Strip(body) = <<>> => record = <<>>
  /\ ~DocTooShort(text) /\ Strip(body) # <<>> =>
        /\ Len(record) = 1
        /\ record[1].content # <<>>

C24_NoneOnEmptyBody == pc = "end" => RecordOrNone(_extract_body_for_embedding(text))

C24_Witness ==
  /\ pc = "end" /\ record = <<>>
  /\ ~DocTooShort(text)
  /\ chunks # <<>>
  /\ Contains(text, LEGAL_ANALYSIS_MARKER)

C24_RecordWitness ==
  /\ pc = "end" /\ record # <<>>
  /\ Contains(text, LEGAL_ANALYSIS_MARKER)
  /\ record[1].content = Cat(Cat(Cat(X(10), NL2), Cat(Bracketed(X(5)), NL2)), X(300))

(***************************************************************************)
(* Properties of Fetcher.fetch.                                            *)
(***************************************************************************)
\* The step that starts a fetch call.
FetchStarts == fetch_calls' = fetch_calls + 1

\* The call that starts is answered at once and without a request.
AnsweredWithoutRequest == fetch_pc' = "idle" /\ get_count' = 0

\* With a cache directory, a url whose content was returned from the network
\* is answered from the cache, without a request.
C25_CachedWithoutRequest ==
  [][FetchStarts /\ _cache_dir /\ from_network[fetch_url'] # <<>>
       => AnsweredWithoutRequest /\ fetch_result'.kind = "return"]_fetcher_vars

\* C25: with a cache directory, once fetch(url) has returned content obtained
\* from the network, every later fetch(url) returns that same content without
\* a network request; with cache_dir=None every fetch goes to the network.
C25_CacheServesSameContent ==
  [][FetchStarts =>
       /\ _cache_dir /\ from_network[fetch_url'] # <<>>
            => /\ AnsweredWithoutRequest
               /\ fetch_result' = Returned(from_network[fetch_url'][1])
       /\ ~_cache_dir /\ _max_retries >= 1
            => fetch_pc' = "loop" /\ attempt' = 1]_fetcher_vars

\* A fetch answered from the cache with a content that differs from the one
\* the network returned.
C25_Witness ==
  /\ _cache_dir /\ fetch_pc = "idle" /\ fetch_result # <<>>
  /\ fetch_result.kind = "return" /\ get_count = 0
  /\ from_network[fetch_url] # <<>>
  /\ fetch_result.content # from_network[fetch_url][1]

\* The request failed: an exception, or a response with a 5xx status.
Failed(resp) == resp.raised \/ resp.status_code >= 500

\* The running call has ended by returning the body of a network response.
ReturnedFromNetwork ==
  /\ fetch_pc = "idle" /\ fetch_result # <<>>
  /\ fetch_result.kind = "return" /\ get_count > 0

\* The running call has ended by raising RuntimeError.
Raised == fetch_pc = "idle" /\ fetch_result = RuntimeError

\* C26: one fetch of an uncached url issues at most max_retries requests; it
\* goes on only after a failed request, returns the body of the first
\* response below 500, and after max_retries failures raises RuntimeError,
\* having made exactly max_retries requests and written no cache file.
C26_RetryBound ==
  /\ get_count <= _max_retries
  /\ fetch_pc = "loop" =>
       /\ get_count = attempt - 1
       /\ get_count > 0 => Failed(response)
  /\ ReturnedFromNetwork =>
       /\ ~Failed(response)
       /\ fetch_result.content = response.text
  /\ Raised =>
       /\ get_count = _max_retries
       /\ get_count > 0 => Failed(response)
       /\ cache_files[fetch_url] = <<>>

\* All attempts failed, and there was more than one.
C26_Witness == Raised /\ get_count = _max_retries /\ _max_retries >= 2

\* A 5xx response followed by a successful one.
C26_RetryWitness == ReturnedFromNetwork /\ get_count = 2 /\ response.status_code = 200

(***************************************************************************)
(* Properties of the downloader.                                           *)
(***************************************************************************)
\* The whole content of the file is on disk.
Saved(p) == local_files[p] = ContentBytes

\* download_one has skipped the entry: True without a request and without
\* a download counted for it.
Skipped(p) == task_pc[p] = "returned" /\ task_result[p] = "True" /\ task_gets[p] = 0

\* A path is recorded as done, in memory or in the progress file, only when
\* a non-empty file for it is on disk.
C27_DoneOnlyWithFile ==
  \A p \in _downloaded \cup progress_lines : local_files[p] > 0

\* download_one for a path recorded as done makes no request, counts one
\* skip and returns True.
C27_DoneIsSkipped ==
  [][\A p \in FilePaths :
        task_pc[p] = "queued" /\ task_pc'[p] # "queued" /\ p \in _downloaded
          => /\ task_pc'[p] = "returned" /\ task_result'[p] = "True"
             /\ task_gets'[p] = 0 /\ stats'.skipped = stats.skipped + 1
             /\ stats'.downloaded = stats.downloaded]_downloader_vars

\* A request is made only for a file that is neither recorded as done nor
\* saved on disk.
C27_NoRedownload ==
  \A p \in FilePaths :
    task_pc[p] = "request" => p \notin progress_lines /\ ~Saved(p)

\* C27: under every interleaving of the worker threads a path is recorded as
\* done only after its content was written to disk (or a non-empty file for
\* it was found there), so a run, resumed ones included, never requests a
\* finished file again and never skips a file that is not saved.
C27_ResumeSafe ==
  /\ C27_DoneOnlyWithFile
  /\ C27_NoRedownload
  /\ \A p \in FilePaths : Skipped(p) => Saved(p)

\* A resumed run has skipped a file of which only a part is on disk.
C27_Witness ==
  \E p \in FilePaths : run = 2 /\ Skipped(p) /\ ~Saved(p) /\ p \in progress_lines

(***************************************************************************)
(* Properties of the tail merge.                                           *)
(***************************************************************************)
\* final is pieces with its last Len(pieces) - Len(final) + 1 pieces joined
\* by blank lines into one, and everything before them as it was.
TailMergeOf(final, pieces) ==
  IF pieces = <<>> THEN final = <<>>
  ELSE /\ Len(final) \in 1..Len(pieces)
       /\ \A k \in 1..(Len(final) - 1) : final[k] = pieces[k]
       /\ final[Len(final)] = JoinBlank(SubSeq(pieces, Len(final), Len(pieces)))

\* The chunks are the bodies in their final order, numbered from 0.
InFinalOrder ==
  /\ Len(chunks) = Len(raw_chunks)
  /\ \A k \in 1..Len(chunks) :
        /\ chunks[k].chunk_index = k - 1
        /\ chunks[k].text = Cat(Cat(header, NL2), raw_chunks[k])

\* C28: the tail merge changes only the end of the splitter's output: every
\* final body but the last is the splitter piece at the same position, the
\* last one is the remaining pieces joined by blank lines in their order, and
\* chunk_index follows the final order.
C28_OnlyTailMerged ==
  pc = "done" /\ chunks # <<>> =>
    /\ \E pieces \in split_text(cleaned_text) : TailMergeOf(raw_chunks, pieces)
    /\ InFinalOrder

\* Three pieces came back as two bodies: the first untouched, the last two
\* joined.
C28_Witness ==
  /\ pc = "done" /\ Len(chunks) = 2
  /\ \E pieces \in split_text(cleaned_text) :
        Len(pieces) = 3 /\ TailMergeOf(raw_chunks, pieces)

\* Three pieces came back as one body, after two merges.
C28_TwoMergesWitness ==
  /\ pc = "done" /\ Len(chunks) = 1
  /\ \E pieces \in split_text(cleaned_text) :
        Len(pieces) = 3 /\ TailMergeOf(raw_chunks, pieces)

\* Every piece the splitter can return for the cleaned text has at most 2000
\* characters.
PiecesWithinSize ==
  \A pieces \in split_text(cleaned_text) :
     \A k \in 1..Len(pieces) : TLen(pieces[k]) <= CHUNK_SIZE_CHARS

\* The longest body a tail merge can build: a full piece, the blank line and
\* a tail just under the threshold.
MergedBodyMax == CHUNK_SIZE_CHARS + 2 + (TAIL_MIN_CHARS - 1)

\* C29: when every splitter piece has at most 2000 characters, every body
\* has at most 2000 + 2 + 499 = 2501 characters after any number of tail
\* merges, and only the last body can exceed 2000 characters.
C29_BodyLengthBound ==
  pc = "merge" /\ PiecesWithinSize =>
    /\ \A k \in 1..Len(raw_chunks) : TLen(raw_chunks[k]) <= MergedBodyMax
    /\ \A k \in 1..(Len(raw_chunks) - 1) : TLen(raw_chunks[k]) <= CHUNK_SIZE_CHARS

\* Two merges have built a body of exactly 2501 characters.
C29_Witness ==
  /\ pc = "merge" /\ PiecesWithinSize
  /\ raw_chunks # <<>> /\ TLen(raw_chunks[Len(raw_chunks)]) = MergedBodyMax

\* A document returned in two chunks, the last one longer than 2000 characters.
C29_LastOnlyWitness ==
  /\ pc = "merge" /\ PiecesWithinSize /\ Len(raw_chunks) = 2 /\ ~TailTooSmall(raw_chunks)
  /\ TLen(raw_chunks[2]) > CHUNK_SIZE_CHARS

(***************************************************************************)
(* The two variants on the same (text, doc_id).                            *)
(***************************************************************************)
\* Both variants have returned something for the document.
BothReturned == pc = "end" /\ chunks # <<>> /\ record # <<>>

\* The record and a chunk carry the same path and jurisdiction metadata.
SamePathMetadata(r, ch) ==
  /\ r.court = ch.court /\ r.year = ch.year /\ r.court_level = ch.court_level
  /\ r.subcourt = ch.subcourt /\ r.jurisdiction = ch.jurisdiction

\* chunk_document returns no chunk only where extract_document returns None.
NoChunkNoRecord == pc = "end" /\ chunks = <<>> => record = <<>>

\* C30 as stated: for every (text, doc_id) for which both variants return
\* something, the record's court, year, court_level, subcourt, jurisdiction
\* and title equal those of the chunks; and where chunk_document returns no
\* chunk, extract_document returns None.
C30_SameMetadata ==
  /\ BothReturned =>
       \A k \in 1..Len(chunks) :
          SamePathMetadata(record[1], chunks[k]) /\ record[1].title = chunks[k].title
  /\ NoChunkNoRecord

\* C30: the record's court, year, court_level, subcourt and jurisdiction
\* equal those of the chunks and its title is the first 200 characters of
\* the chunks' title; where chunk_document returns no chunk, extract_document
\* returns None.
C30_SameMetadataTitleCut ==
  /\ BothReturned =>
       \A k \in 1..Len(chunks) :
          /\ SamePathMetadata(record[1], chunks[k])
          /\ record[1].title = Take(chunks[k].title, RECORD_TITLE_CHARS)
  /\ NoChunkNoRecord

\* A document with a heading of more than 200 characters, returned by both
\* variants.
C30_Witness == BothReturned /\ TLen(chunks[1].title) > RECORD_TITLE_CHARS

\* A document over the floor that cleans to nothing: no chunk and no record.
C30_NoneWitness ==
  pc = "end" /\ ~DocTooShort(text) /\ chunks = <<>> /\ record = <<>>

\* A document with a jurisdiction line and a subcourt, returned by both.
C30_MetadataWitness ==
  /\ BothReturned /\ record[1].title = chunks[1].title /\ record[1].title # <<>>
  /\ record[1].subcourt # <<>> /\ record[1].jurisdiction # <<>> /\ record[1].year # <<>>

====
